---- MODULE Spec2Model ----
(***************************************************************************)
(* Document question-answering backend: the chunker with page attribution  *)
(* (services/document_processor.py), the citation scorer                   *)
(* (services/citation_engine.py) and the upload handler (main.py).         *)
(*                                                                         *)
(* Texts are sequences of one-character strings.  Character offsets,       *)
(* token indices and page numbers are the integers the code computes.      *)
(* Real-valued quantities are kept exact: a ratio is compared by cross     *)
(* multiplication, a midpoint distance is kept doubled.                    *)
(***************************************************************************)
EXTENDS Integers, Sequences, FiniteSets, TLC

VARIABLES
    chunk_size,     \* DocumentProcessor.chunk_size
    chunk_overlap,  \* DocumentProcessor.chunk_overlap
    text,           \* chunk_text argument: the flattened document text
    page_texts,     \* chunk_text argument: the list of page records
    chunks,         \* the list chunk_text returned
    dp_pc,          \* position of the chunk_text call: "call" | "done"
    file,           \* process_document argument: the file and its name
    processed,      \* what process_document returned or raised
    pd_pc,          \* position of the process_document call
    requests,       \* the HTTP requests received, each with its position
    collection,     \* EmbeddingService.collection: the indexed chunks
    documents_collection,   \* the document records of the database
    hits,           \* create_citations argument: the retrieved chunks
    answer,         \* create_citations argument: the answer text
    citations,      \* the list create_citations returned
    ce_pc,          \* position of the create_citations call
    report,         \* the report verify_citation_accuracy returned
    previous,       \* the citations and report of an earlier scoring
    question,       \* generate_answer / generate_comparison argument
    context_chunks, \* generate_answer argument: the retrieved chunks
    ga_pc,          \* position of the generate_answer call
    attempt,        \* loop variable of the retry loop
    is_general_question,    \* local of generate_answer
    events,         \* generation calls and sleeps made so far, in order
    ga_result,      \* what generate_answer returned
    doc_chunks_map, \* generate_comparison argument
    gc_pc,          \* position of the generate_comparison call
    gc_result       \* what generate_comparison returned

chunkVars == <<text, page_texts, chunks, dp_pc>>
ingestVars == <<file, processed, pd_pc>>
appVars == <<requests, collection, documents_collection>>
citeVars == <<hits, answer, citations, ce_pc, report, previous>>
qaVars == <<question, context_chunks, ga_pc, attempt, is_general_question,
            events, ga_result, doc_chunks_map, gc_pc, gc_result>>
vars == <<chunk_size, chunk_overlap, chunkVars, ingestVars, appVars, citeVars,
          qaVars>>

(***************************************************************************)
(* Bounds of the model.                                                    *)
(***************************************************************************)
MaxTextLen == 4     \* longest text handed to chunk_text
MaxWindow == 2      \* largest chunk_size tried
MaxPos == 4         \* largest character offset of a page record
MaxPages == 2       \* longest list of page records
MaxPageNo == 2      \* largest page number of a page record
MaxPdfPages == 2    \* most pages of a PDF file
MaxPageLen == 2     \* longest raw text of a PDF page
MaxTxtLen == 6      \* longest content of a TXT file
MaxRequests == 2    \* most HTTP requests received in a run

(***************************************************************************)
(* Program constants.                                                      *)
(***************************************************************************)
DefaultChunkSize == 800
DefaultChunkOverlap == 100
OverlapNum == 3     \* the threshold 0.3 as OverlapNum / OverlapDen
OverlapDen == 10
SnippetLen == 100
DefaultPage == 1

Whitespace == {" ", "\n"}
Chars == {"a"} \cup Whitespace

Min(a, b) == IF a < b THEN a ELSE b
Max(a, b) == IF a > b THEN a ELSE b
Abs(a) == IF a < 0 THEN -a ELSE a

\* Python's s[i:j] for 0 <= i and 0 <= j.
Slice(s, i, j) == SubSeq(s, i + 1, Min(j, Len(s)))

(***************************************************************************)
(* str.split(): the maximal runs of non-whitespace characters, in order.   *)
(***************************************************************************)
RECURSIVE TokenLen(_)
TokenLen(s) ==
    IF s = <<>> \/ Head(s) \in Whitespace THEN 0 ELSE 1 + TokenLen(Tail(s))

RECURSIVE split(_)
split(s) ==
    IF s = <<>> THEN <<>>
    ELSE IF Head(s) \in Whitespace THEN split(Tail(s))
    ELSE LET n == TokenLen(s)
         IN  <<SubSeq(s, 1, n)>> \o split(SubSeq(s, n + 1, Len(s)))

\* ' '.join(words)
RECURSIVE join(_)
join(words) ==
    IF words = <<>> THEN <<>>
    ELSE IF Len(words) = 1 THEN words[1]
    ELSE words[1] \o <<" ">> \o join(Tail(words))

\* A range that also yields the value equal to stop.
RECURSIVE range_inclusive(_, _, _)
range_inclusive(i, stop, step) ==
    IF i > stop THEN <<>> ELSE <<i>> \o range_inclusive(i + step, stop, step)

\* range(i, stop, step) for step > 0, as the list of its values.
RECURSIVE range(_, _, _)
range(i, stop, step) ==
    IF i >= stop THEN <<>> ELSE <<i>> \o range(i + step, stop, step)

(***************************************************************************)
(* _find_page_for_chunk.  First loop: the first page, in list order, that  *)
(* overlaps the chunk by more than 0.3 of the chunk's length.              *)
(***************************************************************************)
OverlapLen(char_start, char_end, page_info) ==
    Min(char_end, page_info.char_end) - Max(char_start, page_info.char_start)

OverThreshold(char_start, char_end, page_info) ==
    LET ov == OverlapLen(char_start, char_end, page_info)
    IN  /\ ov > 0
        /\ OverlapDen * ov > OverlapNum * (char_end - char_start)

RECURSIVE FirstOverThreshold(_, _, _, _)
FirstOverThreshold(char_start, char_end, pages, k) ==
    IF k > Len(pages) THEN 0
    ELSE IF OverThreshold(char_start, char_end, pages[k]) THEN k
    ELSE FirstOverThreshold(char_start, char_end, pages, k + 1)

\* Twice the distance between the chunk's midpoint and the page's midpoint.
Distance2(char_start, char_end, page_info) ==
    Abs((char_start + char_end) - (page_info.char_start + page_info.char_end))

\* Fallback loop: min_distance2 = -1 stands for float('inf').
RECURSIVE ClosestPage(_, _, _, _, _, _)
ClosestPage(char_start, char_end, pages, k, min_distance2, closest_page) ==
    IF k > Len(pages) THEN closest_page
    ELSE LET d == Distance2(char_start, char_end, pages[k])
         IN  IF min_distance2 = -1 \/ d < min_distance2
             THEN ClosestPage(char_start, char_end, pages, k + 1, d,
                              pages[k].page_number)
             ELSE ClosestPage(char_start, char_end, pages, k + 1,
                              min_distance2, closest_page)

\* An attribution that returns the position in the list, not the page number.
find_page_for_chunk_index(char_start, char_end, pages) ==
    LET k == FirstOverThreshold(char_start, char_end, pages, 1)
    IN  IF k > 0 THEN k
        ELSE ClosestPage(char_start, char_end, pages, 1, -1, DefaultPage)

\* An attribution by closest midpoint alone.
find_page_for_chunk_closest(char_start, char_end, pages) ==
    ClosestPage(char_start, char_end, pages, 1, -1, DefaultPage)

\* A fallback loop that keeps the last of the equidistant pages.
RECURSIVE ClosestPageLast(_, _, _, _, _, _)
ClosestPageLast(char_start, char_end, pages, k, min_distance2, closest_page) ==
    IF k > Len(pages) THEN closest_page
    ELSE LET d == Distance2(char_start, char_end, pages[k])
         IN  IF min_distance2 = -1 \/ d <= min_distance2
             THEN ClosestPageLast(char_start, char_end, pages, k + 1, d,
                                  pages[k].page_number)
             ELSE ClosestPageLast(char_start, char_end, pages, k + 1,
                                  min_distance2, closest_page)

\* An attribution with that fallback.
find_page_for_chunk_last_tie(char_start, char_end, pages) ==
    LET k == FirstOverThreshold(char_start, char_end, pages, 1)
    IN  IF k > 0 THEN pages[k].page_number
        ELSE ClosestPageLast(char_start, char_end, pages, 1, -1, DefaultPage)

find_page_for_chunk(char_start, char_end, pages) ==
    LET k == FirstOverThreshold(char_start, char_end, pages, 1)
    IN  IF k > 0 THEN pages[k].page_number
        ELSE ClosestPage(char_start, char_end, pages, 1, -1, DefaultPage)

(***************************************************************************)
(* chunk_text                                                              *)
(***************************************************************************)
\* A chunk that ends where the next one begins.
MakeChunkWithoutOverlap(words, pages, chunk_id, i) ==
    LET chunk_words == Slice(words, i, i + chunk_size - chunk_overlap)
        ctext == join(chunk_words)
        char_start == Len(join(Slice(words, 0, i)))
        char_end == char_start + Len(ctext)
    IN  [chunk_id |-> chunk_id,
         text |-> ctext,
         page_number |-> find_page_for_chunk(char_start, char_end, pages),
         start_index |-> i,
         end_index |-> i + Len(chunk_words),
         char_start |-> char_start,
         char_end |-> char_end,
         snippet |-> Slice(ctext, 0, SnippetLen)]

MakeChunk(words, pages, chunk_id, i) ==
    LET chunk_words == Slice(words, i, i + chunk_size)
        ctext == join(chunk_words)
        char_start == Len(join(Slice(words, 0, i)))
        char_end == char_start + Len(ctext)
    IN  [chunk_id |-> chunk_id,
         text |-> ctext,
         page_number |-> find_page_for_chunk(char_start, char_end, pages),
         start_index |-> i,
         end_index |-> i + Len(chunk_words),
         char_start |-> char_start,
         char_end |-> char_end,
         snippet |-> Slice(ctext, 0, SnippetLen)]

chunk_text(full_text, pages) ==
    LET words == split(full_text)
        starts == range(0, Len(words), chunk_size - chunk_overlap)
    IN  [k \in 1..Len(starts) |-> MakeChunk(words, pages, k - 1, starts[k])]

(***************************************************************************)
(* Text extraction.  A PDF is the list of the raw texts of its pages, a    *)
(* TXT file is its decoded content.                                        *)
(***************************************************************************)
RECURSIVE lstrip(_)
lstrip(s) ==
    IF s # <<>> /\ Head(s) \in Whitespace THEN lstrip(Tail(s)) ELSE s

RECURSIVE rstrip(_)
rstrip(s) ==
    IF s # <<>> /\ s[Len(s)] \in Whitespace
    THEN rstrip(SubSeq(s, 1, Len(s) - 1))
    ELSE s

strip(s) == rstrip(lstrip(s))

\* The loop of extract_text_from_pdf over page_num = 0 .. len(doc) - 1.
RECURSIVE PdfPages(_, _, _, _)
PdfPages(doc, page_num, full_text, pts) ==
    IF page_num >= Len(doc) THEN [full_text |-> full_text, page_texts |-> pts]
    ELSE LET t == strip(doc[page_num + 1])
         IN  IF t # <<>>
             THEN PdfPages(doc, page_num + 1,
                           full_text \o <<"\n">> \o t \o <<"\n">>,
                           Append(pts, [page_number |-> page_num + 1,
                                        text |-> t,
                                        char_start |-> Len(full_text),
                                        char_end |-> Len(full_text) + Len(t)]))
             ELSE PdfPages(doc, page_num + 1, full_text, pts)

extract_text_from_pdf(doc) ==
    LET r == PdfPages(doc, 0, <<>>, <<>>)
    IN  IF r.page_texts = <<>>
        THEN [full_text |-> <<>>, total_pages |-> Len(doc), page_texts |-> <<>>]
        ELSE [full_text |-> r.full_text,
              total_pages |-> Len(r.page_texts),
              page_texts |-> r.page_texts]

\* str.split('\n\n'): cut at each occurrence of the separator, left to right.
RECURSIVE split_paragraphs(_)
split_paragraphs(s) ==
    LET cuts == {i \in 1..(Len(s) - 1) : s[i] = "\n" /\ s[i + 1] = "\n"}
    IN  IF cuts = {} THEN <<s>>
        ELSE LET i == CHOOSE c \in cuts : \A d \in cuts : c <= d
             IN  <<SubSeq(s, 1, i - 1)>>
                     \o split_paragraphs(SubSeq(s, i + 2, Len(s)))

\* The loop of extract_text_from_txt over enumerate(paragraphs).
RECURSIVE TxtPages(_, _, _, _)
TxtPages(paragraphs, i, char_pos, pts) ==
    IF i >= Len(paragraphs) THEN pts
    ELSE LET para == paragraphs[i + 1]
         IN  IF strip(para) # <<>>
             THEN TxtPages(paragraphs, i + 1, char_pos + Len(para) + 2,
                           Append(pts, [page_number |-> i + 1,
                                        text |-> para,
                                        char_start |-> char_pos,
                                        char_end |-> char_pos + Len(para)]))
             ELSE TxtPages(paragraphs, i + 1, char_pos, pts)

extract_text_from_txt(data) ==
    LET pts == TxtPages(split_paragraphs(data), 0, 0, <<>>)
    IN  [full_text |-> data, total_pages |-> Len(pts), page_texts |-> pts]

(***************************************************************************)
(* process_document.  A file name is the list <<stem, extension>>; a       *)
(* message is the list of the pieces an f-string puts together.  The file  *)
(* content is of kind "pdf" (pages), "txt" (data) or "bad" (not readable   *)
(* by the extractor its name selects).  The summary, key topics,           *)
(* complexity and reading time are computed from full_text, raise nothing  *)
(* on a text with a token, and are left out of the result.                 *)
(***************************************************************************)
endswith(filename, suffix) == filename[Len(filename)] = suffix

Raised(message) == [ok |-> FALSE, message |-> message]

\* The except clause of process_document.
FailedToProcess(filename, message) ==
    Raised(<<"Failed to process document ">> \o filename \o <<": ">> \o message)

Extract(f) ==
    IF endswith(f.filename, ".pdf")
    THEN IF f.kind = "pdf"
         THEN [ok |-> TRUE] @@ extract_text_from_pdf(f.pages)
         ELSE Raised(<<"Failed to extract text from PDF: ", "cannot open">>)
    ELSE IF f.kind = "txt"
         THEN [ok |-> TRUE] @@ extract_text_from_txt(f.data)
         ELSE Raised(<<"cannot decode">>)

\* A pipeline that checks neither the extracted text nor the chunk list.
process_document_unchecked(f, doc_id) ==
    LET x == Extract(f)
    IN  IF ~x.ok THEN FailedToProcess(f.filename, x.message)
        ELSE LET cs == chunk_text(x.full_text, x.page_texts)
             IN  [ok |-> TRUE,
                  doc_id |-> doc_id,
                  filename |-> f.filename,
                  full_text |-> x.full_text,
                  chunks |-> cs,
                  total_pages |-> x.total_pages,
                  page_texts |-> x.page_texts,
                  metadata |-> [total_chunks |-> Len(cs)]]

process_document(f, doc_id) ==
    LET x == Extract(f)
    IN  IF ~x.ok THEN FailedToProcess(f.filename, x.message)
        ELSE IF strip(x.full_text) = <<>>
        THEN FailedToProcess(f.filename,
                 <<"No text could be extracted from ">> \o f.filename
                     \o <<". This might be a scanned PDF or corrupted file.">>)
        ELSE LET cs == chunk_text(x.full_text, x.page_texts)
             IN  IF cs = <<>>
                 THEN FailedToProcess(f.filename,
                          <<"No chunks could be created from ">> \o f.filename
                              \o <<". The document might be too short or contain no meaningful text.">>)
                 ELSE [ok |-> TRUE,
                       doc_id |-> doc_id,
                       filename |-> f.filename,
                       full_text |-> x.full_text,
                       chunks |-> cs,
                       total_pages |-> x.total_pages,
                       page_texts |-> x.page_texts,
                       metadata |-> [total_chunks |-> Len(cs)]]

(***************************************************************************)
(* Inputs of the chunker.                                                  *)
(***************************************************************************)
TextsUpTo(n) == UNION {[1..k -> Chars] : k \in 0..n}

PageRecord(n, s, e) == [page_number |-> n, char_start |-> s, char_end |-> e]

\* Page lists of the data model: spans in page order without overlap, page
\* numbers increasing.  The page text is not read by chunk_text.
IsPageList(ps) ==
    /\ \A k \in 1..Len(ps) : ps[k].char_start < ps[k].char_end
    /\ \A k \in 1..(Len(ps) - 1) :
          /\ ps[k].char_end <= ps[k + 1].char_start
          /\ ps[k].page_number < ps[k + 1].page_number

\* The page lists of at most n records that start at offset lo or later
\* with a page number of no or more.
RECURSIVE PageListsFrom(_, _, _)
PageListsFrom(lo, no, n) ==
    IF n = 0 THEN {<<>>}
    ELSE {<<>>} \cup
         UNION {{<<PageRecord(q, se[1], se[2])>> \o rest :
                    rest \in PageListsFrom(se[2], q + 1, n - 1)} :
                q \in no..MaxPageNo,
                se \in {x \in (lo..MaxPos) \X (lo..MaxPos) : x[1] < x[2]}}

PageLists == PageListsFrom(0, 1, MaxPages)

\* The window of the constructor, and small windows that let a short text
\* span several chunks.
WindowConfigs ==
    {<<w, o>> \in (1..MaxWindow) \X (0..MaxWindow) : o < w}
        \cup {<<DefaultChunkSize, DefaultChunkOverlap>>}

IdleChunk ==
    text = <<>> /\ page_texts = <<>> /\ chunks = <<>> /\ dp_pc = "idle"

IdleIngest ==
    file = <<>> /\ processed = <<>> /\ pd_pc = "idle"

IdleApp ==
    requests = <<>> /\ collection = {} /\ documents_collection = {}

IdleCite ==
    /\ hits = <<>> /\ answer = <<>> /\ citations = <<>> /\ ce_pc = "idle"
    /\ report = <<>> /\ previous = <<>>

IdleQa ==
    /\ question = <<>> /\ context_chunks = <<>> /\ ga_pc = "idle"
    /\ attempt = 0 /\ is_general_question = FALSE /\ events = <<>>
    /\ ga_result = <<>>
    /\ doc_chunks_map = <<>> /\ gc_pc = "idle" /\ gc_result = <<>>

InitChunk ==
    /\ \E c \in WindowConfigs : chunk_size = c[1] /\ chunk_overlap = c[2]
    /\ text \in TextsUpTo(MaxTextLen)
    /\ page_texts \in PageLists
    /\ chunks = <<>>
    /\ dp_pc = "call"
    /\ IdleIngest
    /\ IdleApp
    /\ IdleCite
    /\ IdleQa

ChunkText ==
    /\ dp_pc = "call"
    /\ chunks' = chunk_text(text, page_texts)
    /\ dp_pc' = "done"
    /\ UNCHANGED <<chunk_size, chunk_overlap, text, page_texts, ingestVars,
                   appVars, citeVars, qaVars>>

NextChunk == ChunkText

SpecChunk == InitChunk /\ [][NextChunk]_vars

(***************************************************************************)
(* Properties of the chunker, checked under SpecChunk.                     *)
(***************************************************************************)
\* The number of whitespace-delimited tokens of a text, counted at the
\* positions where a token begins.
TokenCount(s) ==
    Cardinality({i \in 1..Len(s) :
        /\ s[i] \notin Whitespace
        /\ (i = 1 \/ s[i - 1] \in Whitespace)})

CeilDiv(n, d) == (n + d - 1) \div d

PageNumbers(ps) == {ps[k].page_number : k \in 1..Len(ps)}

\* C2: chunk_text returns exactly ceil(n / (W - O)) chunks for a text of n
\* tokens (none for n = 0), and the loop over 900 tokens with the window
\* 800 and the overlap 100 of the constructor runs twice.
C2_ChunkCount ==
    /\ dp_pc = "done" =>
          Len(chunks) = CeilDiv(TokenCount(text), chunk_size - chunk_overlap)
    /\ Len(range(0, 900, DefaultChunkSize - DefaultChunkOverlap)) = 2

C2_Witness ==
    /\ dp_pc = "done"
    /\ chunk_overlap > 0
    /\ TokenCount(text) = 2
    /\ Len(chunks) = 2

\* C3 as stated: every chunk's page_number is the page_number of one of the
\* supplied page records, for every list of page records.
C3_PageAmongSupplied ==
    dp_pc = "done" =>
        \A k \in 1..Len(chunks) :
            chunks[k].page_number \in PageNumbers(page_texts)

\* C3 amended: the same for every non-empty list of page records.
C3_PageAmongSuppliedNonEmpty ==
    (dp_pc = "done" /\ page_texts # <<>>) =>
        \A k \in 1..Len(chunks) :
            chunks[k].page_number \in PageNumbers(page_texts)

\* A chunk no page overlaps by more than 0.3, placed by the fallback on a
\* page whose number is not DefaultPage.
C3_Witness ==
    /\ dp_pc = "done"
    /\ Len(page_texts) = 2
    /\ \E k \in 1..Len(chunks) :
          /\ chunks[k].page_number = 2
          /\ \A j \in 1..Len(page_texts) :
                OverlapLen(chunks[k].char_start, chunks[k].char_end,
                           page_texts[j]) <= 0

Inside(c, p) == p.char_start <= c.char_start /\ c.char_end <= p.char_end

\* C4: a chunk whose character range lies inside the span of one page
\* record (spans in page order, not overlapping) gets that page's number.
C4_ContainedChunk ==
    (dp_pc = "done" /\ IsPageList(page_texts)) =>
        \A k \in 1..Len(chunks) : \A j \in 1..Len(page_texts) :
            Inside(chunks[k], page_texts[j]) =>
                chunks[k].page_number = page_texts[j].page_number

\* A chunk inside the second page that lies no farther from the first
\* page's midpoint than from its own page's.
C4_Witness ==
    /\ dp_pc = "done"
    /\ Len(page_texts) = 2
    /\ \E k \in 1..Len(chunks) :
          /\ Inside(chunks[k], page_texts[2])
          /\ chunks[k].page_number = page_texts[2].page_number
          /\ Distance2(chunks[k].char_start, chunks[k].char_end, page_texts[1])
               <= Distance2(chunks[k].char_start, chunks[k].char_end,
                           page_texts[2])

\* C5: the chunk's page is a page of largest overlap when some page's
\* overlap ratio exceeds 0.3, and otherwise a page whose midpoint is closest.
C5_MaxOverlapPage ==
    (dp_pc = "done" /\ page_texts # <<>>) =>
        \A k \in 1..Len(chunks) :
            LET c == chunks[k]
                P == 1..Len(page_texts)
                ov(j) == OverlapLen(c.char_start, c.char_end, page_texts[j])
                d2(j) == Distance2(c.char_start, c.char_end, page_texts[j])
            IN  IF \E j \in P : ov(j) > 0 /\ 10 * ov(j) > 3 * (c.char_end - c.char_start)
                THEN \E j \in P :
                        /\ c.page_number = page_texts[j].page_number
                        /\ \A i \in P : ov(i) <= ov(j)
                ELSE \E j \in P :
                        /\ c.page_number = page_texts[j].page_number
                        /\ \A i \in P : d2(j) <= d2(i)

C27_ChunkWindows ==
    dp_pc = "done" =>
        LET tokens == split(text)
            n == Len(tokens)
            W == chunk_size
            O == chunk_overlap
            lo(k) == k * (W - O)
            hi(k) == IF lo(k) + W < n THEN lo(k) + W ELSE n
        IN  /\ \A j \in 1..Len(chunks) :
                   /\ chunks[j].chunk_id = j - 1
                   /\ chunks[j].text =
                          join(SubSeq(tokens, lo(j - 1) + 1, hi(j - 1)))
            /\ \A t \in 0..(n - 1) :
                   \E j \in 1..Len(chunks) : lo(j - 1) <= t /\ t < hi(j - 1)
            /\ \A j \in 1..(Len(chunks) - 1) :
                   hi(j) - lo(j) >= O =>
                       /\ hi(j - 1) - lo(j) = O
                       /\ SubSeq(tokens, lo(j) + 1, hi(j - 1))
                              = SubSeq(split(chunks[j + 1].text), 1, O)

\* A text of two tokens cut with a window of 2 and an overlap of 1: two
\* chunks that share the second token.
C27_Witness ==
    /\ dp_pc = "done"
    /\ chunk_size = 2
    /\ chunk_overlap = 1
    /\ Len(chunks) = 2
    /\ chunks[1].end_index - chunks[2].start_index = 1
    /\ chunks[2].text # <<>>

\* C28: char_start of a chunk is the length of the space-joined tokens
\* before it and char_end - char_start the length of its text; over the
\* chunk list char_start and char_end never decrease.
C28_CharSpans ==
    dp_pc = "done" =>
        /\ \A j \in 1..Len(chunks) :
               /\ chunks[j].char_start =
                      Len(join(SubSeq(split(text), 1, chunks[j].start_index)))
               /\ chunks[j].char_end - chunks[j].char_start
                      = Len(chunks[j].text)
        /\ \A j \in 1..(Len(chunks) - 1) :
               /\ chunks[j].char_start <= chunks[j + 1].char_start
               /\ chunks[j].char_end <= chunks[j + 1].char_end

(***************************************************************************)
(* process_document on its own: every small PDF and TXT file.              *)
(***************************************************************************)
PdfFile(pages) ==
    [filename |-> <<"a", ".pdf">>, kind |-> "pdf", pages |-> pages, data |-> <<>>]

TxtFile(data) ==
    [filename |-> <<"b", ".txt">>, kind |-> "txt", pages |-> <<>>, data |-> data]

BadFile(filename) ==
    [filename |-> filename, kind |-> "bad", pages |-> <<>>, data |-> <<>>]

PdfDocs(maxPages, maxLen) ==
    UNION {[1..k -> TextsUpTo(maxLen)] : k \in 0..maxPages}

IngestFiles ==
    {PdfFile(d) : d \in PdfDocs(MaxPdfPages, MaxPageLen)}
        \cup {TxtFile(t) : t \in TextsUpTo(MaxTxtLen)}
        \cup {BadFile(<<"a", ".pdf">>), BadFile(<<"b", ".txt">>)}

InitIngest ==
    /\ \E c \in WindowConfigs : chunk_size = c[1] /\ chunk_overlap = c[2]
    /\ file \in IngestFiles
    /\ processed = <<>>
    /\ pd_pc = "call"
    /\ IdleChunk
    /\ IdleApp
    /\ IdleCite
    /\ IdleQa

ProcessDocument ==
    /\ pd_pc = "call"
    /\ processed' = process_document(file, "doc")
    /\ pd_pc' = "done"
    /\ UNCHANGED <<chunk_size, chunk_overlap, file, chunkVars, appVars,
                   citeVars, qaVars>>

NextIngest == ProcessDocument

SpecIngest == InitIngest /\ [][NextIngest]_vars

(***************************************************************************)
(* Properties of process_document, checked under SpecIngest.               *)
(***************************************************************************)
\* The texts the pages of a file are made of: the raw page texts of a PDF,
\* the paragraphs of a TXT file.  Entry p belongs to page_number p.
SourcePages(f) ==
    IF f.kind = "pdf" THEN f.pages ELSE split_paragraphs(f.data)

\* The page the token of 0-based index t of the document comes from: the
\* tokens of the document are the tokens of its pages, page after page.
RECURSIVE TokenPage(_, _, _)
TokenPage(srcs, p, t) ==
    LET n == TokenCount(srcs[p])
    IN  IF t < n THEN p ELSE TokenPage(srcs, p + 1, t - n)

\* C1: a chunk whose tokens all come from the text of a single page carries
\* that page's page_number.
C1_SinglePageChunk ==
    (pd_pc = "done" /\ processed.ok) =>
        \A k \in 1..Len(processed.chunks) :
            LET c == processed.chunks[k]
                origin == {TokenPage(SourcePages(file), 1, t) :
                              t \in c.start_index..(c.end_index - 1)}
            IN  \A p \in origin : origin = {p} => c.page_number = p

(***************************************************************************)
(* The citation scorer (services/citation_engine.py).  A confidence and a  *)
(* rounded score are kept in thousandths; an unrounded score is kept as    *)
(* the fraction num / den, so that no comparison is lost to arithmetic.    *)
(***************************************************************************)
Thousand == 1000            \* thousandths: round(x, 3) keeps 3 decimals
WeightOverlap == 5          \* word_overlap * 0.5, in tenths
WeightSemantic == 3         \* semantic_score * 0.3, in tenths
WeightPosition == 2         \* position bonus * 0.2, in tenths
DefaultConfidence == 500    \* chunk.get("confidence", 0.5), in thousandths
MaxCitations == 5           \* citations[:5]
FullTextLen == 500          \* chunk["text"][:500]
MinWordLen == 3             \* len(word) > 3

UpperCase ==
    <<"A", "B", "C", "D", "E", "F", "G", "H", "I", "J", "K", "L", "M", "N",
      "O", "P", "Q", "R", "S", "T", "U", "V", "W", "X", "Y", "Z">>

LowerCase ==
    <<"a", "b", "c", "d", "e", "f", "g", "h", "i", "j", "k", "l", "m", "n",
      "o", "p", "q", "r", "s", "t", "u", "v", "w", "x", "y", "z">>

Digits == {"0", "1", "2", "3", "4", "5", "6", "7", "8", "9"}

\* The characters \w matches.
WordChars ==
    {UpperCase[i] : i \in 1..26} \cup {LowerCase[i] : i \in 1..26}
        \cup Digits \cup {"_"}

\* str.lower() on one character and on a word.
lower_char(c) ==
    IF \E i \in 1..26 : UpperCase[i] = c
    THEN LowerCase[CHOOSE i \in 1..26 : UpperCase[i] = c]
    ELSE c

lower(w) == [i \in 1..Len(w) |-> lower_char(w[i])]

RECURSIVE WordLen(_)
WordLen(s) ==
    IF s = <<>> \/ Head(s) \notin WordChars THEN 0 ELSE 1 + WordLen(Tail(s))

\* re.findall(r'\b\w+\b', s): the maximal runs of word characters.
RECURSIVE findall_words(_)
findall_words(s) ==
    IF s = <<>> THEN <<>>
    ELSE IF Head(s) \notin WordChars THEN findall_words(Tail(s))
    ELSE LET n == WordLen(s)
         IN  <<SubSeq(s, 1, n)>> \o findall_words(SubSeq(s, n + 1, Len(s)))

stop_words ==
    {<<"t", "h", "e">>, <<"a">>, <<"a", "n">>, <<"a", "n", "d">>,
     <<"o", "r">>, <<"b", "u", "t">>, <<"i", "n">>, <<"o", "n">>,
     <<"a", "t">>, <<"t", "o">>, <<"f", "o", "r">>, <<"o", "f">>,
     <<"w", "i", "t", "h">>, <<"b", "y">>, <<"f", "r", "o", "m">>,
     <<"a", "s">>, <<"i", "s">>, <<"w", "a", "s">>, <<"a", "r", "e">>,
     <<"b", "e", "e", "n">>, <<"b", "e">>, <<"t", "h", "i", "s">>,
     <<"t", "h", "a", "t">>, <<"t", "h", "e", "s", "e">>,
     <<"t", "h", "o", "s", "e">>, <<"i", "t">>, <<"i", "t", "s">>,
     <<"w", "h", "i", "c", "h">>, <<"w", "h", "o">>, <<"w", "h", "a", "t">>,
     <<"h", "a", "v", "e">>, <<"h", "a", "s">>, <<"h", "a", "d">>,
     <<"w", "i", "l", "l">>, <<"w", "o", "u", "l", "d">>, <<"c", "a", "n">>,
     <<"c", "o", "u", "l", "d">>, <<"m", "a", "y">>,
     <<"m", "i", "g", "h", "t">>, <<"s", "h", "o", "u", "l", "d">>,
     <<"s", "h", "a", "l", "l">>, <<"m", "u", "s", "t">>, <<"d", "o">>,
     <<"d", "o", "e", "s">>, <<"d", "i", "d">>, <<"n", "o", "t">>,
     <<"n", "o">>, <<"n", "o", "r">>, <<"a", "m">>, <<"w", "e", "r", "e">>,
     <<"b", "e", "i", "n", "g">>, <<"y", "o", "u">>, <<"y", "o", "u", "r">>,
     <<"w", "e">>, <<"o", "u", "r">>, <<"t", "h", "e", "y">>,
     <<"t", "h", "e", "i", "r">>}

\* The set of lowercased words longer than 3 characters that are no stop
\* words.
meaningful_words(s) ==
    LET ws == findall_words(s)
    IN  {lower(ws[i]) : i \in {j \in 1..Len(ws) :
            Len(ws[j]) > MinWordLen /\ lower(ws[j]) \notin stop_words}}

Frac(n, d) == [num |-> n, den |-> d]

\* min(1.0, x)
MinOne(x) == IF x.num > x.den THEN Frac(1, 1) ELSE x

\* An overlap normalised by the source's words.
calculate_word_overlap_by_source(source_text, answer_text) ==
    LET source_words == meaningful_words(source_text)
        answer_words == meaningful_words(answer_text)
    IN  IF answer_words = {} \/ source_words = {} THEN Frac(0, 1)
        ELSE MinOne(Frac(Cardinality(source_words \cap answer_words),
                         Cardinality(source_words)))

\* _calculate_word_overlap, as a fraction.
calculate_word_overlap(source_text, answer_text) ==
    LET source_words == meaningful_words(source_text)
        answer_words == meaningful_words(answer_text)
    IN  IF answer_words = {} THEN Frac(0, 1)
        ELSE MinOne(Frac(Cardinality(source_words \cap answer_words),
                         Cardinality(answer_words)))

\* round(x, 3) of the fraction x >= 0, in thousandths; a tie goes to the
\* even neighbour.
Round3(x) ==
    LET n == Thousand * x.num
        q == n \div x.den
        r2 == 2 * (n % x.den)
    IN  IF r2 > x.den \/ (r2 = x.den /\ q % 2 = 1) THEN q + 1 ELSE q

\* dict.get(key, default)
Get(d, key, default) == IF key \in DOMAIN d THEN d[key] ELSE default

\* A positional term counted from the 1-based rank instead of the index.
position_bonus_rank(n, idx) == Frac(WeightPosition * (n - (idx + 1)), 10 * n)

\* (len(chunks) - idx) / len(chunks) * 0.2
position_bonus(n, idx) == Frac(WeightPosition * (n - idx), 10 * n)

\* word_overlap * 0.5 + semantic_score * 0.3 + position_bonus
relevance(word_overlap, semantic_score, bonus) ==
    Frac(WeightOverlap * word_overlap.num * Thousand * bonus.den
             + WeightSemantic * semantic_score * word_overlap.den * bonus.den
             + 10 * Thousand * bonus.num * word_overlap.den,
         10 * Thousand * word_overlap.den * bonus.den)

(***************************************************************************)
(* _extract_relevant_snippet                                               *)
(***************************************************************************)
context_window == 200       \* context_window: int = 200
MinSentenceLen == 20        \* len(s.strip()) > 20
SnippetWordLen == 4         \* \w{4,}

SentenceEnds == {".", "!", "?"}

\* The first position from i on whose character is, or is not, a sentence
\* end; Len(s) + 1 when there is none.
FirstAt(s, i, is_end) ==
    LET found == {j \in i..Len(s) : (s[j] \in SentenceEnds) = is_end}
    IN  IF found = {} THEN Len(s) + 1
        ELSE CHOOSE j \in found : \A k \in found : j <= k

\* re.split(r'[.!?]+', s): the pieces between the maximal runs of sentence
\* ends, empty pieces included, from position i on.
RECURSIVE resplit(_, _)
resplit(s, i) ==
    LET j == FirstAt(s, i, TRUE)
    IN  IF j > Len(s) THEN <<SubSeq(s, i, Len(s))>>
        ELSE <<SubSeq(s, i, j - 1)>> \o resplit(s, FirstAt(s, j, FALSE))

\* [s.strip() for s in pieces if len(s.strip()) > 20]
RECURSIVE long_sentences(_)
long_sentences(pieces) ==
    IF pieces = <<>> THEN <<>>
    ELSE IF Len(strip(Head(pieces))) > MinSentenceLen
    THEN <<strip(Head(pieces))>> \o long_sentences(Tail(pieces))
    ELSE long_sentences(Tail(pieces))

\* The lowercased words of 4 or more characters of a sentence.
sentence_words(s) ==
    LET ws == findall_words(s)
    IN  {lower(ws[i]) : i \in {j \in 1..Len(ws) : Len(ws[j]) >= SnippetWordLen}}

\* An answer's words of 4 or more characters that are no stop words.
snippet_answer_words(s) == sentence_words(s) \ stop_words

\* A loop that takes a sentence that does as well as the best so far.
RECURSIVE best_sentence_last(_, _, _, _, _)
best_sentence_last(sentences, k, answer_words, best_score, best) ==
    IF k > Len(sentences) THEN best
    ELSE LET overlap == Cardinality(answer_words
                                        \cap sentence_words(sentences[k]))
         IN  IF overlap >= best_score
             THEN best_sentence_last(sentences, k + 1, answer_words, overlap,
                                     sentences[k])
             ELSE best_sentence_last(sentences, k + 1, answer_words,
                                     best_score, best)

\* The loop over the sentences: a sentence replaces the best one only with
\* a larger overlap.
RECURSIVE best_sentence(_, _, _, _, _)
best_sentence(sentences, k, answer_words, best_score, best) ==
    IF k > Len(sentences) THEN best
    ELSE LET overlap == Cardinality(answer_words
                                        \cap sentence_words(sentences[k]))
         IN  IF overlap > best_score
             THEN best_sentence(sentences, k + 1, answer_words, overlap,
                                sentences[k])
             ELSE best_sentence(sentences, k + 1, answer_words, best_score,
                                best)

\* best_sentence[:context_window], with "..." after a longer sentence.
snippet_of(sentence) ==
    IF Len(sentence) > context_window
    THEN Slice(sentence, 0, context_window) \o <<".", ".", ".">>
    ELSE sentence

\* A snippet taken from the last of the best sentences.
extract_relevant_snippet_last(source_text, answer_text) ==
    LET sentences == long_sentences(resplit(source_text, 1))
    IN  IF sentences = <<>>
        THEN Slice(source_text, 0, context_window) \o <<".", ".", ".">>
        ELSE snippet_of(best_sentence_last(sentences, 1,
                 snippet_answer_words(answer_text), 0, sentences[1]))

extract_relevant_snippet(source_text, answer_text) ==
    LET sentences == long_sentences(resplit(source_text, 1))
    IN  IF sentences = <<>>
        THEN Slice(source_text, 0, context_window) \o <<".", ".", ".">>
        ELSE snippet_of(best_sentence(sentences, 1,
                 snippet_answer_words(answer_text), 0, sentences[1]))

\* The citation built in the loop of create_citations for chunks[idx].
MakeCitation(hs, idx, answer_text) ==
    LET chunk == hs[idx + 1]
        word_overlap == calculate_word_overlap(chunk.text, answer_text)
        semantic_score == Get(chunk, "confidence", DefaultConfidence)
        bonus == position_bonus(Len(hs), idx)
    IN  [citation_id |-> idx + 1,
         text |-> extract_relevant_snippet(chunk.text, answer_text),
         full_text |-> Slice(chunk.text, 0, FullTextLen),
         doc_id |-> chunk.doc_id,
         chunk_id |-> chunk.chunk_id,
         page_number |-> Get(chunk, "page_number", DefaultPage),
         confidence |-> semantic_score,
         relevance_score |-> Round3(relevance(word_overlap, semantic_score, bonus)),
         word_overlap |-> Round3(word_overlap)]

\* A sort key of -relevance_score alone.
KeyLessRelevanceOnly(a, b) == a.relevance_score > b.relevance_score

\* The sort key (-relevance_score, -confidence) of a is less than that of b.
KeyLess(a, b) ==
    \/ a.relevance_score > b.relevance_score
    \/ a.relevance_score = b.relevance_score /\ a.confidence > b.confidence

\* list.sort is stable: an element stays behind those whose key is not
\* greater than its own.
RECURSIVE InsertByKey(_, _)
InsertByKey(sorted, c) ==
    IF sorted = <<>> THEN <<c>>
    ELSE IF KeyLess(c, Head(sorted)) THEN <<c>> \o sorted
    ELSE <<Head(sorted)>> \o InsertByKey(Tail(sorted), c)

RECURSIVE SortByKey(_, _)
SortByKey(cs, k) ==
    IF k = 0 THEN <<>> ELSE InsertByKey(SortByKey(cs, k - 1), cs[k])

\* Truncation without the sort.
create_citations_unsorted(hs, answer_text) ==
    LET built == [k \in 1..Len(hs) |-> MakeCitation(hs, k - 1, answer_text)]
    IN  Slice(built, 0, MaxCitations)

\* Citations numbered after the sort, by their place in the result.
create_citations_renumbered(hs, answer_text) ==
    LET built == [k \in 1..Len(hs) |-> MakeCitation(hs, k - 1, answer_text)]
        sorted == Slice(SortByKey(built, Len(built)), 0, MaxCitations)
    IN  [i \in 1..Len(sorted) |-> [sorted[i] EXCEPT !.citation_id = i]]

\* An engine that keeps the citations of its earlier call in the list it
\* sorts.
create_citations_accumulating(hs, answer_text) ==
    LET kept == IF previous = <<>> THEN <<>> ELSE previous.citations
        built == kept \o [k \in 1..Len(hs) |->
                             MakeCitation(hs, k - 1, answer_text)]
    IN  Slice(SortByKey(built, Len(built)), 0, MaxCitations)

\* create_citations: build, sort, keep the first five.
create_citations(hs, answer_text) ==
    LET built == [k \in 1..Len(hs) |-> MakeCitation(hs, k - 1, answer_text)]
    IN  Slice(SortByKey(built, Len(built)), 0, MaxCitations)

(***************************************************************************)
(* create_citations on its own: every list of retrieved hits drawn from a  *)
(* pool of hit contents, with each of two answers.  The chunk ids of a     *)
(* list are distinct, as the ids of the index are.                         *)
(***************************************************************************)
MaxHits == 6        \* longest list of retrieved hits

HitPool ==
    {[text |-> <<"h", "a", "s", "h", ".">>, doc_id |-> "d1", page_number |-> 1,
      confidence |-> 200],
     [text |-> <<"n", "o", "d", "e">>, doc_id |-> "d1", page_number |-> 2,
      confidence |-> 311],
     [text |-> <<"T", "r", "e", "e", " ", "h", "a", "s", "h">>, doc_id |-> "d2"]}

Answers ==
    {<<"H", "a", "s", "h", " ", "t", "r", "e", "e", " ", "h", "e", "a", "p">>,
     <<"t", "h", "a", "t", " ", "i", "s", " ", "i", "t">>}

HitLists ==
    UNION {{[k \in 1..n |-> c[k] @@ [chunk_id |-> n - k]] :
               c \in [1..n -> HitPool]} : n \in 0..MaxHits}

InitCite ==
    /\ hits \in HitLists
    /\ answer \in Answers
    /\ citations = <<>>
    /\ ce_pc = "call"
    /\ report = <<>>
    /\ previous = <<>>
    /\ chunk_size = DefaultChunkSize
    /\ chunk_overlap = DefaultChunkOverlap
    /\ IdleChunk
    /\ IdleIngest
    /\ IdleApp
    /\ IdleQa

\* chunk["text"], chunk["doc_id"] and chunk["chunk_id"] are plain subscripts:
\* a chunk without one of these keys ends the call with a KeyError.
create_citations_raises(hs) ==
    \E k \in 1..Len(hs) : ~({"text", "doc_id", "chunk_id"} \subseteq DOMAIN hs[k])

CreateCitations ==
    /\ ce_pc = "call"
    /\ IF create_citations_raises(hits)
       THEN citations' = citations /\ ce_pc' = "raised"
       ELSE citations' = create_citations(hits, answer) /\ ce_pc' = "done"
    /\ UNCHANGED <<chunk_size, chunk_overlap, hits, answer, report, previous,
                   chunkVars, ingestVars, appVars, qaVars>>

NextCite == CreateCitations

SpecCite == InitCite /\ [][NextCite]_vars

(***************************************************************************)
(* Properties of the citation scorer.  A citation is traced back to the    *)
(* hit it was built from through chunk_id, which is distinct per hit.      *)
(***************************************************************************)
HitOf(c) == CHOOSE k \in 1..Len(hits) : hits[k].chunk_id = c.chunk_id

HitConfidence(k) ==
    IF "confidence" \in DOMAIN hits[k] THEN hits[k].confidence
    ELSE DefaultConfidence

\* 0.5*word_overlap + 0.3*confidence + 0.2*((N - idx)/N) of the hit at
\* 1-based place k (idx = k - 1), in thousandths, as the exact fraction
\* FormulaNum(k) / FormulaDen(k).
FormulaNum(k) ==
    LET wo == calculate_word_overlap(hits[k].text, answer)
        N == Len(hits)
    IN  5 * Thousand * wo.num * N + 3 * HitConfidence(k) * wo.den * N
            + 2 * Thousand * (N - (k - 1)) * wo.den

FormulaDen(k) == 10 * calculate_word_overlap(hits[k].text, answer).den * Len(hits)

FormulaGreater(j, k) == FormulaNum(j) * FormulaDen(k) > FormulaNum(k) * FormulaDen(j)

FormulaEqual(j, k) == FormulaNum(j) * FormulaDen(k) = FormulaNum(k) * FormulaDen(j)

\* C7: the citation built from the hit at 0-based retrieval index idx of N
\* hits has relevance_score = 0.5*word_overlap + 0.3*confidence
\* + 0.2*((N - idx)/N) rounded to 3 decimals, confidence being the hit's
\* confidence or 0.5 if absent; the positional term never exceeds 0.2.
C7_RelevanceFormula ==
    ce_pc = "done" =>
        \A i \in 1..Len(citations) :
            LET c == citations[i]
                k == HitOf(c)
            IN  /\ c.confidence = HitConfidence(k)
                /\ 2 * Abs(FormulaNum(k) - c.relevance_score * FormulaDen(k))
                       <= FormulaDen(k)
                /\ position_bonus(Len(hits), k - 1).num * 10
                       <= 2 * position_bonus(Len(hits), k - 1).den

\* A citation of a hit that is not the first retrieved, has no confidence of
\* its own and shares words with the answer.
C7_Witness ==
    /\ ce_pc = "done"
    /\ \E i \in 1..Len(citations) :
           LET k == HitOf(citations[i])
           IN  /\ k > 1
               /\ "confidence" \notin DOMAIN hits[k]
               /\ citations[i].confidence = DefaultConfidence
               /\ citations[i].word_overlap > 0

\* The distinct words of a text that are longer than 3 characters and no
\* stop words, in lower case.
DistinctMeaningful(s) ==
    LET ws == findall_words(s)
    IN  {w \in {lower(ws[i]) : i \in 1..Len(ws)} :
            Len(w) > 3 /\ w \notin stop_words}

\* C25: the word_overlap of a citation is the number of distinct meaningful
\* answer words that are among the source's meaningful words, divided by
\* the number of distinct meaningful answer words (to 3 decimals); it lies
\* in [0, 1]; it is 0 when no word is shared or the answer has no
\* meaningful word, and the relevance is then 0.3*confidence
\* + 0.2*((N - idx)/N) (to 3 decimals).
C25_WordOverlap ==
    ce_pc = "done" =>
        \A i \in 1..Len(citations) :
            LET c == citations[i]
                k == HitOf(c)
                N == Len(hits)
                aw == DistinctMeaningful(answer)
                shared == aw \cap DistinctMeaningful(hits[k].text)
            IN  /\ 0 <= c.word_overlap
                /\ c.word_overlap <= 1000
                /\ IF shared = {}
                   THEN /\ c.word_overlap = 0
                        /\ 2 * Abs(3 * HitConfidence(k) * N
                                       + 2 * 1000 * (N - (k - 1))
                                       - 10 * N * c.relevance_score)
                               <= 10 * N
                   ELSE 2 * Abs(1000 * Cardinality(shared)
                                    - c.word_overlap * Cardinality(aw))
                            <= Cardinality(aw)

\* Citations of one run: one whose source shares two of the answer's three
\* words, spelt in another case, and one whose source shares none.
C25_Witness ==
    /\ ce_pc = "done"
    /\ Cardinality(DistinctMeaningful(answer)) = 3
    /\ \E i \in 1..Len(citations) :
          /\ citations[i].word_overlap = 667
          /\ hits[HitOf(citations[i])].text
                 = <<"T", "r", "e", "e", " ", "h", "a", "s", "h">>
    /\ \E i \in 1..Len(citations) :
          /\ citations[i].word_overlap = 0
          /\ hits[HitOf(citations[i])].text = <<"n", "o", "d", "e">>

\* C8 as stated: of two returned citations the one whose hit has the greater
\* value of the relevance formula is placed first, and with equal values the
\* one with the higher confidence is placed first.
C8_OrderedByFormula ==
    ce_pc = "done" =>
        \A i, j \in 1..Len(citations) :
            LET a == HitOf(citations[i])
                b == HitOf(citations[j])
            IN  /\ FormulaGreater(a, b) => i < j
                /\ (FormulaEqual(a, b)
                       /\ citations[i].confidence > citations[j].confidence)
                      => i < j

\* C8 amended: of two returned citations the one with the greater
\* relevance_score (the relevance rounded to 3 decimals) is placed first, and
\* with equal relevance_score the one with the higher confidence is placed
\* first.
C8_OrderedByScore ==
    ce_pc = "done" =>
        \A i, j \in 1..Len(citations) :
            /\ citations[i].relevance_score > citations[j].relevance_score
                  => i < j
            /\ (citations[i].relevance_score = citations[j].relevance_score
                   /\ citations[i].confidence > citations[j].confidence)
                  => i < j

\* Two citations of equal relevance_score, the one retrieved later placed
\* first for its higher confidence.
C8_Witness ==
    /\ ce_pc = "done"
    /\ \E i, j \in 1..Len(citations) :
           /\ i < j
           /\ citations[i].relevance_score = citations[j].relevance_score
           /\ citations[i].confidence > citations[j].confidence
           /\ HitOf(citations[i]) > HitOf(citations[j])

Included == {HitOf(citations[i]) : i \in 1..Len(citations)}

LeftOut == (1..Len(hits)) \ Included

\* C9 as stated, relevance being the value of the relevance formula:
\* min(N, 5) citations are returned and no hit left out ranks higher (by
\* relevance, then confidence) than a hit included.
C9_TopFiveByFormula ==
    ce_pc = "done" =>
        /\ Len(citations) = Min(Len(hits), MaxCitations)
        /\ \A x \in LeftOut, y \in Included :
               /\ ~FormulaGreater(x, y)
               /\ ~(FormulaEqual(x, y) /\ HitConfidence(x) > HitConfidence(y))

\* C9 amended: min(N, 5) citations are returned and no hit left out ranks
\* higher, by relevance_score (the relevance rounded to 3 decimals) and then
\* confidence, than a hit included.
C9_TopFiveByScore ==
    ce_pc = "done" =>
        /\ Len(citations) = Min(Len(hits), MaxCitations)
        /\ \A x \in LeftOut, y \in Included :
               ~KeyLess(MakeCitation(hits, x - 1, answer),
                        MakeCitation(hits, y - 1, answer))

\* More than five hits, one of the first five retrieved left out.
C9_Witness ==
    /\ ce_pc = "done"
    /\ Len(hits) > MaxCitations
    /\ Len(citations) = MaxCitations
    /\ \E x \in LeftOut : x <= MaxCitations

\* C10 as stated: the citation at 1-based position i of the returned list has
\* citation_id = i.
C10_IdIsPosition ==
    ce_pc = "done" =>
        \A i \in 1..Len(citations) : citations[i].citation_id = i

\* C10 amended: citation_id is the 1-based retrieval rank of the hit the
\* citation was built from (its index in the input list plus one), whatever
\* the citation's position in the returned list.
C10_IdIsRetrievalRank ==
    ce_pc = "done" =>
        \A i \in 1..Len(citations) :
            /\ citations[i].citation_id \in 1..Len(hits)
            /\ hits[citations[i].citation_id].chunk_id = citations[i].chunk_id
            /\ hits[citations[i].citation_id].doc_id = citations[i].doc_id

\* The first citation returned is not of the first hit retrieved.
C10_Witness ==
    /\ ce_pc = "done"
    /\ Len(citations) > 1
    /\ citations[1].citation_id # 1
    /\ hits[citations[1].citation_id].chunk_id = citations[1].chunk_id

(***************************************************************************)
(* verify_citation_accuracy (citation_engine.py).  Averages are compared   *)
(* exactly: sum / n > t is sum > t * n, scores being in thousandths.       *)
(***************************************************************************)
Hundred == 100              \* hundredths: round(x, 2) keeps 2 decimals
RelevantThreshold == 300    \* relevance_score > 0.3
HighThreshold == 500        \* > 0.5
MediumThreshold == 300      \* > 0.3
AcceptableThreshold == 150  \* > 0.15

\* round(x, 2) of the fraction x >= 0, in hundredths; a tie goes to the even
\* neighbour.
Round2(x) ==
    LET n == Hundred * x.num
        q == n \div x.den
        r2 == 2 * (n % x.den)
    IN  IF r2 > x.den \/ (r2 = x.den /\ q % 2 = 1) THEN q + 1 ELSE q

\* sum(c.get(key, 0) for c in cs[1..k])
RECURSIVE SumOf(_, _, _)
SumOf(cs, key, k) ==
    IF k = 0 THEN 0 ELSE SumOf(cs, key, k - 1) + Get(cs[k], key, 0)

\* sorted(set): the elements of a set of integers in increasing order
RECURSIVE sorted(_)
sorted(S) ==
    IF S = {} THEN <<>>
    ELSE LET m == CHOOSE x \in S : \A y \in S : x <= y
         IN  <<m>> \o sorted(S \ {m})

\* A grading that takes one good average for two.
quality_either(sum_relevance, sum_confidence, n) ==
    IF sum_relevance > HighThreshold * n \/ sum_confidence > HighThreshold * n
    THEN "high"
    ELSE IF sum_relevance > MediumThreshold * n
            \/ sum_confidence > MediumThreshold * n
    THEN "medium"
    ELSE IF sum_relevance > AcceptableThreshold * n
            \/ sum_confidence > AcceptableThreshold * n
    THEN "acceptable"
    ELSE "low"

\* The if / elif chain over avg_relevance and avg_confidence.
quality(sum_relevance, sum_confidence, n) ==
    IF sum_relevance > HighThreshold * n /\ sum_confidence > HighThreshold * n
    THEN "high"
    ELSE IF sum_relevance > MediumThreshold * n
            /\ sum_confidence > MediumThreshold * n
    THEN "medium"
    ELSE IF sum_relevance > AcceptableThreshold * n
            \/ sum_confidence > AcceptableThreshold * n
    THEN "acceptable"
    ELSE "low"

\* average_confidence and average_relevance are in hundredths.
verify_citation_accuracy(answer_text, cs) ==
    LET total_citations == Len(cs)
        sum_confidence == SumOf(cs, "confidence", total_citations)
        sum_relevance == SumOf(cs, "relevance_score", total_citations)
    IN  IF total_citations = 0
        THEN [total_citations |-> 0,
              relevant_citations |-> 0,
              average_confidence |-> 0,
              average_relevance |-> 0,
              pages_cited |-> <<>>,
              citation_quality |-> "none"]
        ELSE [total_citations |-> total_citations,
              relevant_citations |->
                  Cardinality({k \in 1..total_citations :
                      Get(cs[k], "relevance_score", 0) > RelevantThreshold}),
              average_confidence |->
                  Round2(Frac(sum_confidence, Thousand * total_citations)),
              average_relevance |->
                  Round2(Frac(sum_relevance, Thousand * total_citations)),
              pages_cited |->
                  sorted({cs[k].page_number : k \in 1..total_citations}),
              citation_quality |->
                  quality(sum_relevance, sum_confidence, total_citations)]

\* verify_citation_accuracy on its own: every short list of citations with
\* scores on and around the thresholds, and citations without scores.
MaxVerified == 3    \* longest list of citations verified

ScoreValues == {150, 300, 500, 600}

CitationPool ==
    {[relevance_score |-> r, confidence |-> c,
      page_number |-> IF r > c THEN 2 ELSE 1] :
         r \in ScoreValues, c \in ScoreValues}
        \cup {[page_number |-> 3]}

CitationLists == UNION {[1..n -> CitationPool] : n \in 0..MaxVerified}

InitVerify ==
    /\ hits = <<>>
    /\ answer \in Answers
    /\ citations \in CitationLists
    /\ ce_pc = "done"
    /\ report = <<>>
    /\ previous = <<>>
    /\ chunk_size = DefaultChunkSize
    /\ chunk_overlap = DefaultChunkOverlap
    /\ IdleChunk
    /\ IdleIngest
    /\ IdleApp
    /\ IdleQa

VerifyCitationAccuracy ==
    /\ ce_pc = "done"
    /\ report' = verify_citation_accuracy(answer, citations)
    /\ ce_pc' = "verified"
    /\ UNCHANGED <<chunk_size, chunk_overlap, hits, answer, citations,
                   previous, chunkVars, ingestVars, appVars, qaVars>>

NextVerify == VerifyCitationAccuracy

SpecVerify == InitVerify /\ [][NextVerify]_vars

\* Whether the average of `key` over the citations exceeds num / den, a
\* citation without the key counting as 0.
AverageExceeds(key, num, den) ==
    den * SumOf(citations, key, Len(citations))
        > num * Thousand * Len(citations)

BothExceed(num, den) ==
    AverageExceeds("relevance_score", num, den)
        /\ AverageExceeds("confidence", num, den)

EitherExceeds(num, den) ==
    AverageExceeds("relevance_score", num, den)
        \/ AverageExceeds("confidence", num, den)

\* C11: citation_quality is 'none' exactly when the citation list is empty;
\* for a non-empty list it is 'high' if average relevance and average
\* confidence both exceed 0.5, else 'medium' if both exceed 0.3, else
\* 'acceptable' if either exceeds 0.15, else 'low'; all confidences and
\* relevances >= 0.6 give 'high'.
C11_QualityGrades ==
    ce_pc = "verified" =>
        /\ report.citation_quality = "none" <=> citations = <<>>
        /\ citations # <<>> =>
               report.citation_quality =
                   IF BothExceed(5, 10) THEN "high"
                   ELSE IF BothExceed(3, 10) THEN "medium"
                   ELSE IF EitherExceeds(15, 100) THEN "acceptable"
                   ELSE "low"
        /\ (/\ citations # <<>>
            /\ \A k \in 1..Len(citations) :
                   /\ Get(citations[k], "relevance_score", 0) >= 600
                   /\ Get(citations[k], "confidence", 0) >= 600)
               => report.citation_quality = "high"

\* A list of several citations graded 'acceptable' on its confidence alone,
\* its average relevance not exceeding 0.15.
C11_Witness ==
    /\ ce_pc = "verified"
    /\ Len(citations) > 1
    /\ report.citation_quality = "acceptable"
    /\ ~AverageExceeds("relevance_score", 15, 100)
    /\ AverageExceeds("confidence", 3, 10)

(***************************************************************************)
(* Scoring as generate_answer does it: create_citations, then              *)
(* verify_citation_accuracy, and the same pair scored a second time.  The  *)
(* hits include chunks that lack a key.                                    *)
(***************************************************************************)
MaxScoredHits == 3  \* longest list of hits scored twice

IncompleteHits ==
    {[text |-> <<"h", "a", "s", "h">>, page_number |-> 1, confidence |-> 600],
     [doc_id |-> "d1", page_number |-> 1, confidence |-> 600]}

ScoredHitLists ==
    UNION {{[k \in 1..n |-> c[k] @@ [chunk_id |-> n - k]] :
               c \in [1..n -> HitPool \cup IncompleteHits]} :
           n \in 0..MaxScoredHits}

InitScore ==
    /\ hits \in ScoredHitLists
    /\ answer \in Answers
    /\ citations = <<>>
    /\ ce_pc = "call"
    /\ report = <<>>
    /\ previous = <<>>
    /\ chunk_size = DefaultChunkSize
    /\ chunk_overlap = DefaultChunkOverlap
    /\ IdleChunk
    /\ IdleIngest
    /\ IdleApp
    /\ IdleQa

\* The caller keeps what the first scoring returned and scores the same
\* (chunks, answer_text) pair again.
Rescore ==
    /\ ce_pc = "verified"
    /\ previous = <<>>
    /\ previous' = [citations |-> citations, report |-> report,
                    chunks |-> hits]
    /\ citations' = <<>>
    /\ report' = <<>>
    /\ ce_pc' = "call"
    /\ UNCHANGED <<chunk_size, chunk_overlap, hits, answer, chunkVars,
                   ingestVars, appVars, qaVars>>

NextScore == CreateCitations \/ VerifyCitationAccuracy \/ Rescore

SpecScore == InitScore /\ [][NextScore]_vars

\* C12: create_citations returns a citation list without raising for every
\* list of hits, the empty list and hits with absent fields included.
C12_NeverRaises == ce_pc # "raised"

MaxSnippetHits == 2     \* longest list of hits with such texts

\* s repeated n times
RECURSIVE Repeat(_, _)
Repeat(s, n) == IF n = 0 THEN <<>> ELSE s \o Repeat(s, n - 1)

\* ''
EmptySource ==
    <<>>

\* 'Hi there.'
ShortSource ==
    <<"H", "i", " ", "t", "h", "e", "r", "e", ".">>

\* 'Hash tables are fast.'
TwentySource ==
    <<"H", "a", "s", "h", " ", "t", "a", "b", "l", "e", "s", " ", "a", "r",
      "e", " ", "f", "a", "s", "t", ".">>

\* 'Hash tables are quick.'
TwentyOneSource ==
    <<"H", "a", "s", "h", " ", "t", "a", "b", "l", "e", "s", " ", "a", "r",
      "e", " ", "q", "u", "i", "c", "k", ".">>

\* 'That this which would could. Hash tables store keys here.'
SecondBestSource ==
    <<"T", "h", "a", "t", " ", "t", "h", "i", "s", " ", "w", "h", "i", "c",
      "h", " ", "w", "o", "u", "l", "d", " ", "c", "o", "u", "l", "d", ".",
      " ", "H", "a", "s", "h", " ", "t", "a", "b", "l", "e", "s", " ", "s",
      "t", "o", "r", "e", " ", "k", "e", "y", "s", " ", "h", "e", "r", "e",
      ".">>

\* 'Hash functions map the keys!? Hash buckets hold the keys.'
TieSource ==
    <<"H", "a", "s", "h", " ", "f", "u", "n", "c", "t", "i", "o", "n", "s",
      " ", "m", "a", "p", " ", "t", "h", "e", " ", "k", "e", "y", "s", "!",
      "?", " ", "H", "a", "s", "h", " ", "b", "u", "c", "k", "e", "t", "s",
      " ", "h", "o", "l", "d", " ", "t", "h", "e", " ", "k", "e", "y", "s",
      ".">>

\* 'Nothing relevant lives here. Another unrelated sentence.'
UnrelatedSource ==
    <<"N", "o", "t", "h", "i", "n", "g", " ", "r", "e", "l", "e", "v", "a",
      "n", "t", " ", "l", "i", "v", "e", "s", " ", "h", "e", "r", "e", ".",
      " ", "A", "n", "o", "t", "h", "e", "r", " ", "u", "n", "r", "e", "l",
      "a", "t", "e", "d", " ", "s", "e", "n", "t", "e", "n", "c", "e", ".">>

\* 'Hash. Some tables store many keys'
ShortThenLongSource ==
    <<"H", "a", "s", "h", ".", " ", "S", "o", "m", "e", " ", "t", "a", "b",
      "l", "e", "s", " ", "s", "t", "o", "r", "e", " ", "m", "a", "n", "y",
      " ", "k", "e", "y", "s">>

\* One sentence of 202 characters, one of 200, and 210 characters without a
\* sentence of more than 20.
LongWord ==
    <<"h", "a", "s", "h", "t", "a", "b", "l", "e", "s", "h", "a", "s", "h",
      "t", "a", "b", "l", "e">>

LongSentenceSource == Repeat(LongWord \o <<" ">>, 10) \o <<"x", "y", ".">>

FullWindowSource == Repeat(LongWord \o <<" ">>, 9) \o LongWord \o <<"s">>

LongNoSentenceSource == Repeat(LongWord \o <<"s", ".">>, 10)

SnippetSources ==
    {EmptySource, ShortSource, TwentySource, TwentyOneSource, SecondBestSource,
     TieSource, UnrelatedSource, ShortThenLongSource, LongSentenceSource,
     FullWindowSource, LongNoSentenceSource}

\* 'Hash tables that store' and 'it is'
SnippetAnswers ==
    {<<"H", "a", "s", "h", " ", "t", "a", "b", "l", "e", "s", " ", "t", "h", "a", "t", " ", "s", "t", "o", "r", "e">>,
     <<"i", "t", " ", "i", "s">>}

SnippetHitLists ==
    UNION {{[k \in 1..n |->
                [text |-> c[k], doc_id |-> "d1", page_number |-> 1,
                 confidence |-> DefaultConfidence, chunk_id |-> n - k]] :
               c \in [1..n -> SnippetSources]} : n \in 1..MaxSnippetHits}

InitSnippet ==
    /\ hits \in SnippetHitLists
    /\ answer \in SnippetAnswers
    /\ citations = <<>>
    /\ ce_pc = "call"
    /\ report = <<>>
    /\ previous = <<>>
    /\ chunk_size = DefaultChunkSize
    /\ chunk_overlap = DefaultChunkOverlap
    /\ IdleChunk
    /\ IdleIngest
    /\ IdleApp
    /\ IdleQa

NextSnippet == CreateCitations

SpecSnippet == InitSnippet /\ [][NextSnippet]_vars

\* The text of the hit a citation was built from.
SourceOf(c) == hits[HitOf(c)].text

\* The stripped pieces of a text that have n characters or more.
Survivors(s, n) ==
    LET pieces == resplit(s, 1)
        stripped == [k \in 1..Len(pieces) |-> strip(pieces[k])]
    IN  SelectSeq(stripped, LAMBDA x : Len(x) >= n)

\* How many of the answer's meaningful words of 4 or more characters a
\* sentence holds.
SharedWords(sentence, answer_text) ==
    LET ws == findall_words(sentence)
    IN  Cardinality({w \in meaningful_words(answer_text) :
                        \E i \in 1..Len(ws) : lower(ws[i]) = w})

\* C23: when no sentence of the source survives the length filter, the
\* snippet is exactly the first 200 characters of the source, the whole
\* source when it is shorter.
C23_FallbackIsPrefix ==
    ce_pc = "done" =>
        \A i \in 1..Len(citations) :
            LET src == SourceOf(citations[i])
            IN  Survivors(src, 21) = <<>> =>
                    citations[i].text = SubSeq(src, 1, Min(200, Len(src)))

\* The snippet of every citation whose source has a sentence of n
\* characters or more is the first of those sentences that holds the most
\* answer words, cut to 200 characters and "..." when it is longer.
SnippetIsBestSentence(n) ==
    ce_pc = "done" =>
        \A i \in 1..Len(citations) :
            LET kept == Survivors(SourceOf(citations[i]), n)
                count(k) == SharedWords(kept[k], answer)
            IN  kept # <<>> =>
                    \E k \in 1..Len(kept) :
                        /\ \A j \in 1..Len(kept) : count(j) <= count(k)
                        /\ \A j \in 1..(k - 1) : count(j) < count(k)
                        /\ citations[i].text =
                               IF Len(kept[k]) > 200
                               THEN SubSeq(kept[k], 1, 200) \o <<".", ".", ".">>
                               ELSE kept[k]

\* C24 as stated: only the sentences shorter than 20 characters are
\* discarded, and the snippet is the best of the others.
C24_BestOfTwentyOrMore == SnippetIsBestSentence(20)

\* C24: the sentences of 20 characters or fewer are discarded, and the
\* snippet is the first of the remaining sentences that holds the most of
\* the answer's meaningful words, cut to 200 characters and an ellipsis
\* only when it is longer.
C24_BestOfMoreThanTwenty == SnippetIsBestSentence(21)

\* A source of two sentences that hold equally many answer words, quoted by
\* its first sentence, beside a sentence of 202 characters quoted cut.
C24_Witness ==
    /\ ce_pc = "done"
    /\ answer # <<"i", "t", " ", "i", "s">>
    /\ \E i \in 1..Len(citations) :
          /\ SourceOf(citations[i]) = TieSource
          /\ citations[i].text = Survivors(TieSource, 21)[1]
    /\ \E i \in 1..Len(citations) :
          /\ SourceOf(citations[i]) = LongSentenceSource
          /\ Len(citations[i].text) = 203

(***************************************************************************)
(* QAEngine.generate_answer (qa_engine.py): classification of the          *)
(* question, the retry loop around the generation call, scoring and        *)
(* suggestions.  The text the generation call returns, or the error it     *)
(* raises, is chosen by the environment.  processing_time is left out of   *)
(* the result.                                                             *)
(***************************************************************************)
max_retries == 3            \* attempts of the generation call
MaxSuggestions == 3         \* suggestions[:3]

\* keyword in text, both sequences of characters
InStr(keyword, s) ==
    \E i \in 0..(Len(s) - Len(keyword)) :
        SubSeq(s, i + 1, i + Len(keyword)) = keyword

general_keywords ==
    {<<"h", "o", "w", " ", "t", "o">>,
     <<"h", "o", "w", " ", "c", "a", "n">>,
     <<"h", "o", "w", " ", "d", "o">>,
     <<"w", "a", "y", "s", " ", "t", "o">>,
     <<"m", "e", "t", "h", "o", "d", "s", " ", "t", "o">>,
     <<"t", "e", "c", "h", "n", "i", "q", "u", "e", "s", " ", "t", "o">>,
     <<"i", "m", "p", "r", "o", "v", "e">>,
     <<"o", "p", "t", "i", "m", "i", "z", "e">>,
     <<"b", "e", "t", "t", "e", "r">>,
     <<"e", "f", "f", "i", "c", "i", "e", "n", "t">>,
     <<"b", "e", "s", "t", " ", "p", "r", "a", "c", "t", "i", "c", "e">>,
     <<"b", "e", "s", "t", " ", "w", "a", "y">>,
     <<"e", "x", "p", "l", "a", "i", "n">>,
     <<"w", "h", "a", "t", " ", "i", "s">>,
     <<"w", "h", "a", "t", " ", "a", "r", "e">>,
     <<"d", "e", "f", "i", "n", "e">>,
     <<"d", "e", "s", "c", "r", "i", "b", "e">>,
     <<"t", "e", "l", "l", " ", "m", "e", " ", "a", "b", "o", "u", "t">>,
     <<"c", "o", "m", "p", "a", "r", "e">>,
     <<"d", "i", "f", "f", "e", "r", "e", "n", "c", "e", " ", "b", "e", "t", "w", "e", "e", "n">>,
     <<"v", "s">>,
     <<"v", "e", "r", "s", "u", "s">>,
     <<"c", "o", "n", "t", "r", "a", "s", "t">>,
     <<"a", "d", "v", "a", "n", "t", "a", "g", "e", "s">>,
     <<"d", "i", "s", "a", "d", "v", "a", "n", "t", "a", "g", "e", "s">>,
     <<"p", "r", "o", "s">>,
     <<"c", "o", "n", "s">>,
     <<"b", "e", "n", "e", "f", "i", "t", "s">>,
     <<"d", "r", "a", "w", "b", "a", "c", "k", "s">>,
     <<"a", "l", "t", "e", "r", "n", "a", "t", "i", "v", "e">>,
     <<"o", "p", "t", "i", "o", "n">>,
     <<"a", "p", "p", "r", "o", "a", "c", "h">>,
     <<"s", "t", "r", "a", "t", "e", "g", "y">>,
     <<"s", "o", "l", "u", "t", "i", "o", "n">>}

\* sum(c.get('confidence', 0) for c in chunks[1..k])
RECURSIVE SumConfidence(_, _)
SumConfidence(cs, k) ==
    IF k = 0 THEN 0 ELSE SumConfidence(cs, k - 1) + Get(cs[k], "confidence", 0)

\* A classification on the trigger phrases alone.
is_general_knowledge_question_keywords(q, cs) ==
    \E keyword \in general_keywords : InStr(keyword, lower(q))

\* _is_general_knowledge_question; avg_confidence < 0.5 is
\* 2 * sum < 1000 * len in thousandths.
is_general_knowledge_question(q, cs) ==
    LET question_lower == lower(q)
        is_general == \E keyword \in general_keywords :
                          InStr(keyword, question_lower)
    IN  IF cs # <<>> /\ 2 * SumConfidence(cs, Len(cs)) < Thousand * Len(cs)
        THEN TRUE
        ELSE is_general

\* list.insert(0, x)
InsertFirst(x, s) == <<x>> \o s

\* The suggestions before the final slice.
collect_suggestions(q, answer_text, is_general) ==
    LET question_lower == lower(q)
        answer_lower == lower(answer_text)
        general == IF is_general
                   THEN <<"What specific examples are in the document?",
                          "Are there related concepts covered?">>
                   ELSE <<>>
        byQuestion ==
            IF InStr(<<"o", "p", "t", "i", "m", "i", "z", "e">>, question_lower)
               \/ InStr(<<"i", "m", "p", "r", "o", "v", "e">>, question_lower)
            THEN <<"What trade-offs should I consider?",
                   "What are practical implications?">>
            ELSE IF InStr(<<"w", "h", "a", "t">>, question_lower)
            THEN <<"How is this implemented?",
                   "Can you explain in more detail?">>
            ELSE IF InStr(<<"h", "o", "w">>, question_lower)
            THEN <<"What are advantages and disadvantages?",
                   "Are there alternatives?">>
            ELSE IF InStr(<<"w", "h", "y">>, question_lower)
            THEN <<"What are the implications?", "How does this compare?">>
            ELSE <<"Can you provide examples?", "What are key takeaways?">>
        appended == general \o byQuestion
                        \o <<"What other related topics are covered?">>
    IN  IF InStr(<<"a", "l", "g", "o", "r", "i", "t", "h", "m">>, answer_lower)
        THEN InsertFirst("What's the time complexity?", appended)
        ELSE IF InStr(<<"d", "a", "t", "a", " ", "s", "t", "r", "u", "c", "t", "u", "r", "e">>, answer_lower)
        THEN InsertFirst("What are the use cases?", appended)
        ELSE appended

\* Suggestions returned without the slice.
generate_suggestions_unsliced(q, answer_text, is_general) ==
    collect_suggestions(q, answer_text, is_general)

\* _generate_suggestions
generate_suggestions(q, answer_text, is_general) ==
    Slice(collect_suggestions(q, answer_text, is_general), 0, MaxSuggestions)

\* _build_context reads chunk['text'] of every chunk: KeyError without it.
build_context_raises(cs) == \E k \in 1..Len(cs) : "text" \notin DOMAIN cs[k]

\* str(e) of the KeyError create_citations raises for cs.
key_error(cs) ==
    LET k == CHOOSE i \in 1..Len(cs) :
                 /\ ~({"text", "doc_id", "chunk_id"} \subseteq DOMAIN cs[i])
                 /\ \A j \in 1..(i - 1) :
                        {"text", "doc_id", "chunk_id"} \subseteq DOMAIN cs[j]
    IN  IF "text" \notin DOMAIN cs[k] THEN "'text'"
        ELSE IF "doc_id" \notin DOMAIN cs[k] THEN "'doc_id'"
        ELSE "'chunk_id'"

\* An error result that does not say what failed.
error_result_silent(message) ==
    [answer |-> <<"I encountered an error processing your question: ",
                  ". Please try rephrasing.">>,
     citations |-> <<>>,
     confidence_score |-> 0,
     suggested_questions |-> <<"Can you rephrase your question?",
         "What specific aspect would you like to know about?">>,
     answer_type |-> "error"]

\* The dict returned by the outer except clause; message is str(e).
error_result(message) ==
    [answer |-> <<"I encountered an error processing your question: ",
                  message, ". Please try rephrasing.">>,
     citations |-> <<>>,
     confidence_score |-> 0,
     suggested_questions |-> <<"Can you rephrase your question?",
         "What specific aspect would you like to know about?">>,
     answer_type |-> "error"]

\* Lines 61-79: scoring, suggestions and the result, for the text the
\* generation call returned.  confidence_score is in hundredths.
answer_result(q, cs, answer_text, is_general) ==
    IF create_citations_raises(cs)
    THEN error_result(key_error(cs))
    ELSE LET cits == create_citations(cs, answer_text)
             citation_report == verify_citation_accuracy(answer_text, cits)
         IN  [answer |-> answer_text,
              citations |-> cits,
              confidence_score |-> citation_report.average_confidence,
              suggested_questions |->
                  generate_suggestions(q, answer_text, is_general),
              citation_report |-> citation_report,
              answer_type |-> IF is_general THEN "hybrid"
                              ELSE "document_only"]

\* A delay that grows with the attempt.
retry_delay_growing(n) == n + 1

\* time.sleep(1): the same delay after every failed attempt that is not the
\* last.
retry_delay(n) == 1

MaxContext == 2     \* longest list of context chunks

Questions ==
    {<<"W", "h", "a", "t", " ", "i", "s", " ", "a", " ", "h", "a", "s", "h", " ", "t", "a", "b", "l", "e", "?">>,
     <<"W", "h", "y", " ", "h", "e", "a", "p", "s">>,
     <<"H", "O", "W", " ", "T", "O", " ", "s", "o", "r", "t">>,
     <<"L", "i", "s", "t", " ", "p", "a", "g", "e", "s">>,
     <<"I", "m", "p", "r", "o", "v", "e", " ", "i", "t">>,
     <<"S", "h", "o", "w", " ", "m", "e">>}

ContextPool ==
    HitPool \cup IncompleteHits
        \cup {[text |-> <<"h", "a", "s", "h", " ", "t", "a", "b", "l", "e">>, doc_id |-> "d1",
               page_number |-> 1, confidence |-> 800]}

ContextLists ==
    UNION {{[k \in 1..n |-> c[k] @@ [chunk_id |-> n - k]] :
               c \in [1..n -> ContextPool]} : n \in 0..MaxContext}

\* What response.text can be.
GeneratedTexts ==
    Answers \cup {<<"A", "n", " ", "A", "l", "g", "o", "r", "i", "t", "h", "m">>, <<"d", "a", "t", "a", " ", "s", "t", "r", "u", "c", "t", "u", "r", "e">>}

\* str(e) of what generate_content can raise.
GenerationErrors == {"quota exceeded", "deadline exceeded"}

InitAnswer ==
    /\ question \in Questions
    /\ context_chunks \in ContextLists
    /\ ga_pc = "call"
    /\ attempt = 0
    /\ is_general_question = FALSE
    /\ events = <<>>
    /\ ga_result = <<>>
    /\ doc_chunks_map = <<>> /\ gc_pc = "idle" /\ gc_result = <<>>
    /\ chunk_size = DefaultChunkSize
    /\ chunk_overlap = DefaultChunkOverlap
    /\ IdleChunk
    /\ IdleIngest
    /\ IdleApp
    /\ IdleCite

\* Lines 36-49: context, classification and prompt.
Prepare ==
    /\ ga_pc = "call"
    /\ IF build_context_raises(context_chunks)
       THEN /\ ga_result' = error_result("'text'")
            /\ ga_pc' = "returned"
            /\ UNCHANGED is_general_question
       ELSE /\ is_general_question' =
                   is_general_knowledge_question(question, context_chunks)
            /\ ga_pc' = "attempt"
            /\ UNCHANGED ga_result
    /\ UNCHANGED <<question, context_chunks, attempt, events, doc_chunks_map,
                   gc_pc, gc_result, chunk_size, chunk_overlap, chunkVars,
                   ingestVars, appVars, citeVars>>

\* generate_content returns t: break, then lines 61-79.
GenerateSucceeds(t) ==
    /\ ga_pc = "attempt"
    /\ events' = Append(events, [kind |-> "generate", ok |-> TRUE])
    /\ ga_result' = answer_result(question, context_chunks, t,
                                  is_general_question)
    /\ ga_pc' = "returned"
    /\ UNCHANGED <<question, context_chunks, attempt, is_general_question,
                   doc_chunks_map, gc_pc, gc_result, chunk_size,
                   chunk_overlap, chunkVars, ingestVars, appVars, citeVars>>

\* generate_content raises e: re-raised to the outer except clause on the
\* last attempt, else the loop goes on to sleep.
GenerateFails(e) ==
    /\ ga_pc = "attempt"
    /\ events' = Append(events, [kind |-> "generate", ok |-> FALSE,
                                 error |-> e])
    /\ IF attempt = max_retries - 1
       THEN ga_result' = error_result(e) /\ ga_pc' = "returned"
       ELSE ga_pc' = "sleep" /\ UNCHANGED ga_result
    /\ UNCHANGED <<question, context_chunks, attempt, is_general_question,
                   doc_chunks_map, gc_pc, gc_result, chunk_size,
                   chunk_overlap, chunkVars, ingestVars, appVars, citeVars>>

\* time.sleep(1) and the next iteration of the for loop.  Leaving the loop
\* without a break would leave answer_text unbound (NameError).
Sleep ==
    /\ ga_pc = "sleep"
    /\ events' = Append(events, [kind |-> "sleep",
                                 seconds |-> retry_delay(attempt)])
    /\ attempt' = attempt + 1
    /\ IF attempt + 1 < max_retries
       THEN ga_pc' = "attempt" /\ UNCHANGED ga_result
       ELSE ga_result' = error_result("answer_text is not bound") /\ ga_pc' = "returned"
    /\ UNCHANGED <<question, context_chunks, is_general_question,
                   doc_chunks_map, gc_pc, gc_result, chunk_size,
                   chunk_overlap, chunkVars, ingestVars, appVars, citeVars>>

NextAnswer ==
    \/ Prepare
    \/ \E t \in GeneratedTexts : GenerateSucceeds(t)
    \/ \E e \in GenerationErrors : GenerateFails(e)
    \/ Sleep

SpecAnswer == InitAnswer /\ [][NextAnswer]_vars

\* generate_answer is synchronous code: a started call runs on, the sleep
\* ends, and a pending generation call comes back.  The call comes back by
\* returning or by raising, both possible whenever it is pending, so that
\* fairness of the raising step says no more than that it comes back.
FairSpecAnswer ==
    /\ SpecAnswer
    /\ WF_vars(Prepare)
    /\ WF_vars(\E e \in GenerationErrors : GenerateFails(e))
    /\ WF_vars(Sleep)

(***************************************************************************)
(* Properties of generate_answer.                                          *)
(***************************************************************************)
Generations == {i \in 1..Len(events) : events[i].kind = "generate"}

\* The retry discipline as far as the call has got.
RetryDiscipline ==
    /\ Cardinality(Generations) <= 3
    /\ \A i, j \in Generations : i < j => ~events[i].ok
    /\ \A i \in 1..Len(events) :
           i < Len(events) =>
               /\ events[i].kind = "generate" =>
                      /\ events[i + 1].kind = "sleep"
                      /\ events[i + 1].seconds = 1
               /\ events[i].kind = "sleep" => events[i + 1].kind = "generate"
    /\ events # <<>> => events[1].kind = "generate"

\* C14: in every run of generate_answer the generation call is invoked at
\* most 3 times, again only after a failed attempt and never after a
\* success, one fixed delay separates consecutive attempts, and the call
\* returns in the end.
C14_BoundedRetry == []RetryDiscipline /\ <>(ga_pc = "returned")

\* Two failed attempts, each followed by the delay, and a third that
\* succeeds.
C14_Witness ==
    /\ ga_pc = "returned"
    /\ Len(events) = 5
    /\ ~events[1].ok /\ ~events[3].ok /\ events[5].ok
    /\ ga_result.answer_type # "error"

\* C15: after 3 failed attempts of the generation call generate_answer
\* returns a result with answer_type 'error', an answer carrying the failure
\* message, no citations, confidence_score 0.0 and exactly 2 suggested
\* questions.
C15_ErrorResult ==
    (/\ Cardinality(Generations) = 3
     /\ \A i \in Generations : ~events[i].ok) =>
        /\ ga_pc = "returned"
        /\ ga_result.answer_type = "error"
        /\ \E i \in 1..Len(ga_result.answer) :
               ga_result.answer[i] = events[Len(events)].error
        /\ ga_result.citations = <<>>
        /\ ga_result.confidence_score = 0
        /\ Len(ga_result.suggested_questions) = 2

\* Three failures, the last with another message than the first.
C15_Witness ==
    /\ ga_pc = "returned"
    /\ Cardinality(Generations) = 3
    /\ \A i \in Generations : ~events[i].ok
    /\ events[1].error # events[5].error
    /\ ga_result.answer_type = "error"

HasTrigger == \E keyword \in general_keywords : InStr(keyword, lower(question))

\* The mean confidence of the supplied chunks is below 0.5, a chunk without
\* a confidence counting as 0.
LowMeanConfidence ==
    /\ context_chunks # <<>>
    /\ 2 * SumConfidence(context_chunks, Len(context_chunks))
           < 1000 * Len(context_chunks)

WhatIsAHashTable ==
    <<"W", "h", "a", "t", " ", "i", "s", " ", "a", " ", "h", "a", "s", "h",
      " ", "t", "a", "b", "l", "e", "?">>

\* C16: a question is classified hybrid exactly when its lowercased text
\* contains a trigger phrase or the supplied chunks have mean confidence
\* below 0.5, else document-only; "What is a hash table?" with all
\* confidences 0.2 is hybrid; a successful answer's answer_type is the
\* classification.
C16_Classification ==
    /\ ga_pc \in {"attempt", "sleep"} =>
           (is_general_question <=> (HasTrigger \/ LowMeanConfidence))
    /\ (ga_pc = "returned" /\ ga_result.answer_type # "error") =>
           /\ is_general_question <=> (HasTrigger \/ LowMeanConfidence)
           /\ ga_result.answer_type =
                  IF is_general_question THEN "hybrid" ELSE "document_only"
           /\ (/\ question = WhatIsAHashTable
               /\ context_chunks # <<>>
               /\ \A k \in 1..Len(context_chunks) :
                      Get(context_chunks[k], "confidence", 0) = 200)
                  => ga_result.answer_type = "hybrid"

\* A question without a trigger phrase answered as hybrid for the low mean
\* confidence of its chunks.
C16_Witness ==
    /\ ga_pc = "returned"
    /\ ~HasTrigger
    /\ LowMeanConfidence
    /\ Len(context_chunks) > 1
    /\ ga_result.answer_type = "hybrid"

\* C17: every result generate_answer returns, on the success path and on
\* the error path, carries between 1 and 3 suggested questions.
C17_SuggestionCount ==
    ga_pc = "returned" =>
        /\ Len(ga_result.suggested_questions) >= 1
        /\ Len(ga_result.suggested_questions) <= 3

\* A hybrid answer naming an algorithm: six suggestions gathered, three
\* returned.
C17_Witness ==
    /\ ga_pc = "returned"
    /\ ga_result.answer_type = "hybrid"
    /\ Len(collect_suggestions(question, ga_result.answer,
                               is_general_question)) = 6
    /\ Len(ga_result.suggested_questions) = 3

\* C22: a returned answer_type 'error' means three generation calls that
\* all failed; every other return follows one successful generation call,
\* the last of the run, has answer_type 'hybrid' or 'document_only' as
\* classified, and carries the citations scored over the context chunks the
\* prompt was built from.
C22_ErrorOnlyAfterRetries ==
    ga_pc = "returned" =>
        IF ga_result.answer_type = "error"
        THEN /\ Cardinality(Generations) = 3
             /\ \A i \in Generations : ~events[i].ok
        ELSE /\ Generations # {}
             /\ \A i \in Generations :
                    events[i].ok <=> (\A j \in Generations : j <= i)
             /\ ga_result.answer_type =
                    (IF is_general_question THEN "hybrid" ELSE "document_only")
             /\ ga_result.citations =
                    create_citations(context_chunks, ga_result.answer)

\* C26: the suggestions of a hybrid or document-only result hold a
\* trade-off prompt when the question contains 'optimize' or 'improve', and
\* an implementation or detail prompt when it contains 'what' and neither
\* of those, whatever the classification and the answer text.
C26_QuestionPromptReturned ==
    (ga_pc = "returned" /\ ga_result.answer_type # "error") =>
        LET q == lower(question)
            tuning == \/ InStr(<<"o", "p", "t", "i", "m", "i", "z", "e">>, q)
                      \/ InStr(<<"i", "m", "p", "r", "o", "v", "e">>, q)
            returned == {ga_result.suggested_questions[i] :
                            i \in 1..Len(ga_result.suggested_questions)}
        IN  /\ tuning => "What trade-offs should I consider?" \in returned
            /\ (~tuning /\ InStr(<<"w", "h", "a", "t">>, q)) =>
                   \/ "How is this implemented?" \in returned
                   \/ "Can you explain in more detail?" \in returned

(***************************************************************************)
(* QAEngine.generate_comparison (qa_engine.py).  The prompt is kept as the *)
(* list of its parts, which "\n".join puts on lines of their own.          *)
(***************************************************************************)
ComparedChunks == 3         \* chunks[:3]
ComparedTextLen == 400      \* chunk['text'][:400]
DocPrefixLen == 8           \* doc_id[:8]

Line(s) == [kind |-> "line", text |-> s]

Ellipsis == <<".", ".", ".">>

\* A chunk text put into the prompt whole.
cut_none(t) == t

\* chunk['text'][:400] + "..." if len(chunk['text']) > 400 else chunk['text']
cut(t) == IF Len(t) > ComparedTextLen
          THEN Slice(t, 0, ComparedTextLen) \o Ellipsis
          ELSE t

\* f"- Page {page}: {text}"
ChunkPart(chunk) ==
    [kind |-> "chunk",
     page |-> IF "page_number" \in DOMAIN chunk
              THEN ToString(chunk.page_number) ELSE "Unknown",
     text |-> cut(chunk.text)]

\* The parts appended for the chunks cs[1..k].
RECURSIVE ChunkParts(_, _)
ChunkParts(cs, k) ==
    IF k = 0 THEN <<>> ELSE Append(ChunkParts(cs, k - 1), ChunkPart(cs[k]))

\* The parts appended for the first k documents of the map.
RECURSIVE DocumentParts(_, _)
DocumentParts(map, k) ==
    IF k = 0 THEN <<>>
    ELSE LET first == Slice(map[k].chunks, 0, ComparedChunks)
         IN  DocumentParts(map, k - 1)
                 \o <<[kind |-> "document",
                       doc_id |-> Slice(map[k].doc_id, 0, DocPrefixLen)]>>
                 \o ChunkParts(first, Len(first))

\* prompt_parts, lines 274-290
comparison_prompt(q, map) ==
    <<Line("Compare multiple documents. Provide comprehensive comparative analysis.\n"),
      [kind |-> "question", text |-> q]>>
        \o DocumentParts(map, Len(map))
        \o <<Line("\n**Instructions:**"),
             Line("1. Use markdown: ## headings, bullets"),
             Line("2. Sections: Similarities, Differences, Analysis"),
             Line("3. Cite page numbers"),
             Line("\n**Analysis:**")>>

\* Building the prompt reads chunk['text'] of the chunks it uses: KeyError
\* without it.
comparison_prompt_raises(map) ==
    \E k \in 1..Len(map) :
        \E j \in 1..Min(ComparedChunks, Len(map[k].chunks)) :
            "text" \notin DOMAIN map[k].chunks[j]

\* f"## Error\n\nComparison failed: {str(e)}"
comparison_error(message) == <<"## Error\n\nComparison failed: ", message>>

MaxDocChunks == 4   \* most chunks of a compared document

ShortText == <<"a", " ", "b">>

\* A text of n characters
TextOfLen(n) == [i \in 1..n |-> "x"]

ComparedChunkPool ==
    {[text |-> ShortText, page_number |-> 2],
     [text |-> TextOfLen(ComparedTextLen)],
     [text |-> TextOfLen(ComparedTextLen + 1), page_number |-> 1],
     [page_number |-> 1]}

ComparedChunkLists ==
    UNION {[1..n -> ComparedChunkPool] : n \in 0..MaxDocChunks}

\* The map of one request: no document, one document, or two documents of
\* which the second has a single chunk.  A dict keeps its keys in the order
\* of insertion.
ComparisonMaps ==
    {<<>>}
        \cup {<<[doc_id |-> <<"d", "1">>, chunks |-> cs]>> :
                 cs \in ComparedChunkLists}
        \cup {<<[doc_id |-> <<"d", "1">>, chunks |-> cs],
                [doc_id |-> <<"d", "o", "c", "u", "m", "e", "n", "t", "2">>,
                 chunks |-> <<c>>]>> :
                 cs \in ComparedChunkLists, c \in ComparedChunkPool}

ComparisonOutcomes ==
    {[ok |-> TRUE, text |-> "## Similarities"],
     [ok |-> FALSE, error |-> "quota exceeded"]}

InitCompare ==
    /\ question = <<"W", "h", "y", " ", "a">>
    /\ doc_chunks_map \in ComparisonMaps
    /\ gc_pc = "call"
    /\ gc_result = <<>>
    /\ events = <<>>
    /\ context_chunks = <<>> /\ ga_pc = "idle" /\ attempt = 0
    /\ is_general_question = FALSE /\ ga_result = <<>>
    /\ chunk_size = DefaultChunkSize
    /\ chunk_overlap = DefaultChunkOverlap
    /\ IdleChunk
    /\ IdleIngest
    /\ IdleApp
    /\ IdleCite

\* generate_comparison from call to return; out is what generate_content
\* does if it is reached.
Compare(out) ==
    /\ gc_pc = "call"
    /\ IF comparison_prompt_raises(doc_chunks_map)
       THEN /\ gc_result' = comparison_error("'text'")
            /\ UNCHANGED events
       ELSE /\ events' = Append(events,
                   [kind |-> "generate", ok |-> out.ok,
                    prompt |-> comparison_prompt(question, doc_chunks_map)])
            /\ gc_result' = IF out.ok THEN <<out.text>>
                            ELSE comparison_error(out.error)
    /\ gc_pc' = "returned"
    /\ UNCHANGED <<question, doc_chunks_map, context_chunks, ga_pc, attempt,
                   is_general_question, ga_result, chunk_size, chunk_overlap,
                   chunkVars, ingestVars, appVars, citeVars>>

NextCompare == \E out \in ComparisonOutcomes : Compare(out)

SpecCompare == InitCompare /\ [][NextCompare]_vars

\* The chunk parts of a prompt that follow its k-th document part, up to
\* the next part that is no chunk.
RECURSIVE PartsAfter(_, _)
PartsAfter(prompt, i) ==
    IF i > Len(prompt) \/ prompt[i].kind # "chunk" THEN <<>>
    ELSE <<prompt[i]>> \o PartsAfter(prompt, i + 1)

DocumentPositions(prompt) ==
    {i \in 1..Len(prompt) : prompt[i].kind = "document"}

\* The position of the k-th document part of the prompt.
DocumentPosition(prompt, k) ==
    CHOOSE i \in DocumentPositions(prompt) :
        Cardinality({j \in DocumentPositions(prompt) : j <= i}) = k

\* C20: the prompt of generate_comparison holds at most the first 3 chunks
\* of each document, each text cut to at most 400 characters plus an
\* ellipsis when cut; the call never raises: when prompt building or the
\* generation call fails it returns the formatted error message, and the
\* generation call is made at most once.
C20_Comparison ==
    gc_pc = "returned" =>
        /\ Len(events) <= 1
        /\ \A e \in 1..Len(events) :
               /\ Cardinality(DocumentPositions(events[e].prompt))
                      = Len(doc_chunks_map)
               /\ \A k \in 1..Len(doc_chunks_map) :
                      LET given == doc_chunks_map[k].chunks
                          used == PartsAfter(events[e].prompt,
                                      DocumentPosition(events[e].prompt, k) + 1)
                      IN  /\ Len(used) = Min(3, Len(given))
                          /\ \A j \in 1..Len(used) :
                                 IF Len(given[j].text) <= 400
                                 THEN used[j].text = given[j].text
                                 ELSE /\ Len(used[j].text) = 403
                                      /\ SubSeq(used[j].text, 1, 400)
                                             = SubSeq(given[j].text, 1, 400)
                                      /\ SubSeq(used[j].text, 401, 403)
                                             = <<".", ".", ".">>
        /\ (events = <<>> \/ ~events[1].ok) =>
               /\ Len(gc_result) = 2
               /\ gc_result[1] = "## Error\n\nComparison failed: "
        /\ (events # <<>> /\ events[1].ok) => Len(gc_result) = 1

\* A document of four chunks, the fourth without a text, with a text of 401
\* characters among the first three, compared with a second document.
C20_Witness ==
    /\ gc_pc = "returned"
    /\ Len(doc_chunks_map) = 2
    /\ Len(doc_chunks_map[1].chunks) = 4
    /\ "text" \notin DOMAIN doc_chunks_map[1].chunks[4]
    /\ \A j \in 1..3 : "text" \in DOMAIN doc_chunks_map[1].chunks[j]
    /\ \E j \in 1..3 : Len(doc_chunks_map[1].chunks[j].text) = 401
    /\ events # <<>>
    /\ events[1].ok

(***************************************************************************)
(* The application: POST /api/upload (main.py) over the vector index and   *)
(* the document store.  A handler runs without interruption between two    *)
(* awaits that suspend it; process_document and embed_chunks do not        *)
(* suspend, insert_one does.  uuid4 is modelled by the request's number.   *)
(***************************************************************************)
Users == {"u1", "u2"}

\* str(e) of an HTTPException raised inside the handler's try block.
HttpExceptionStr(status_code, detail) ==
    <<ToString(status_code), ": ">> \o detail

Http500(prefix, message) == [status |-> 500, detail |-> <<prefix>> \o message]

\* EmbeddingService.embed_chunks: the entries collection.add stores.
IndexEntries(cs, doc_id) ==
    {[id |-> <<doc_id, cs[k].chunk_id>>,
      doc_id |-> doc_id,
      chunk_id |-> cs[k].chunk_id,
      page_number |-> cs[k].page_number,
      document |-> cs[k].text] : k \in 1..Len(cs)}

embed_chunks(index, cs, doc_id) == index \cup IndexEntries(cs, doc_id)

DocumentDoc(result, user) ==
    [doc_id |-> result.doc_id,
     user_id |-> user,
     filename |-> result.filename,
     total_pages |-> result.total_pages,
     metadata |-> result.metadata]

\* The files uploaded: scanned, empty, one-page and two-page documents, a
\* file the extractor cannot read and a file of another type.
UploadFiles ==
    {PdfFile(<<>>), PdfFile(<<<<" ">>>>), PdfFile(<<<<"a">>>>),
     PdfFile(<<<<"a">>, <<"a", " ", "a">>>>),
     TxtFile(<<"\n">>), TxtFile(<<"a", "\n", "\n", "a">>),
     BadFile(<<"a", ".pdf">>), BadFile(<<"c", ".doc">>)}

UploadInputs ==
    {[file |-> f, size_ok |-> TRUE] : f \in UploadFiles}
        \cup {[file |-> PdfFile(<<<<"a">>>>), size_ok |-> FALSE]}

NoResponse == [status |-> 0]
NoResult == [ok |-> FALSE, message |-> <<>>, called |-> FALSE]

InitApp ==
    /\ chunk_size = DefaultChunkSize
    /\ chunk_overlap = DefaultChunkOverlap
    /\ IdleChunk
    /\ IdleIngest
    /\ IdleApp
    /\ IdleCite
    /\ IdleQa

\* A client sends POST /api/upload as an authenticated user.
ReceiveUpload(u, in) ==
    /\ Len(requests) < MaxRequests
    /\ requests' = Append(requests,
           [kind |-> "upload", user |-> u, file |-> in.file,
            size_ok |-> in.size_ok, pc |-> "received",
            result |-> NoResult, response |-> NoResponse])
    /\ UNCHANGED <<collection, documents_collection>>

Finish(r, resp) == [requests EXCEPT ![r].pc = "done", ![r].response = resp]

\* upload_document up to the await of insert_one: validation,
\* process_document and embed_chunks.  embed_ok is whether the encoder and
\* the index accept the chunks.
UploadProcess(r, embed_ok) ==
    LET req == requests[r]
        name == req.file.filename
        result == process_document(req.file, r)
        ran == [requests EXCEPT ![r].result = result @@ [called |-> TRUE]]
    IN  /\ req.kind = "upload" /\ req.pc = "received"
        /\ IF ~(endswith(name, ".pdf") \/ endswith(name, ".txt"))
           THEN /\ requests' = Finish(r, Http500("Error processing document: ",
                        HttpExceptionStr(400,
                            <<"Only PDF and TXT files are supported">>)))
                /\ UNCHANGED collection
           ELSE IF ~req.size_ok
           THEN /\ requests' = Finish(r, Http500("Error processing document: ",
                        HttpExceptionStr(400,
                            <<"File size exceeds 50MB limit.">>)))
                /\ UNCHANGED collection
           ELSE IF ~result.ok
           THEN /\ requests' = [ran EXCEPT ![r].pc = "done",
                        ![r].response = Http500("Error processing document: ",
                                                result.message)]
                /\ UNCHANGED collection
           ELSE IF ~embed_ok
           THEN /\ requests' = [ran EXCEPT ![r].pc = "done",
                        ![r].response = Http500("Error processing document: ",
                                                <<"embedding failed">>)]
                /\ UNCHANGED collection
           ELSE /\ requests' = [ran EXCEPT ![r].pc = "insert"]
                /\ collection' = embed_chunks(collection, result.chunks,
                                              result.doc_id)
        /\ UNCHANGED documents_collection

\* insert_one completes and the handler returns DocumentUploadResponse.
UploadInsert(r) ==
    LET req == requests[r]
    IN  /\ req.kind = "upload" /\ req.pc = "insert"
        /\ documents_collection' =
               documents_collection \cup {DocumentDoc(req.result, req.user)}
        /\ requests' = Finish(r, [status |-> 200,
                                  doc_id |-> req.result.doc_id,
                                  filename |-> req.result.filename,
                                  total_chunks |-> req.result.metadata.total_chunks])
        /\ UNCHANGED collection

\* insert_one raises: the database is unreachable.
UploadInsertFails(r) ==
    LET req == requests[r]
    IN  /\ req.kind = "upload" /\ req.pc = "insert"
        /\ requests' = Finish(r, Http500("Error processing document: ",
                                         <<"insert failed">>))
        /\ UNCHANGED <<collection, documents_collection>>

Next ==
    \/ /\ \/ \E u \in Users, in \in UploadInputs : ReceiveUpload(u, in)
          \/ \E r \in 1..Len(requests), embed_ok \in BOOLEAN :
                UploadProcess(r, embed_ok)
          \/ \E r \in 1..Len(requests) : UploadInsert(r)
          \/ \E r \in 1..Len(requests) : UploadInsertFails(r)
       /\ UNCHANGED <<chunk_size, chunk_overlap, chunkVars, ingestVars,
                      citeVars, qaVars>>

Spec == InitApp /\ [][Next]_vars

(***************************************************************************)
(* Properties of the upload handler, checked under Spec.                   *)
(***************************************************************************)
\* Whether msg holds the pieces of part, in order and side by side.
Contains(msg, part) ==
    \E i \in 0..(Len(msg) - Len(part)) :
        SubSeq(msg, i + 1, i + Len(part)) = part

AllWhitespace(s) == \A i \in 1..Len(s) : s[i] \in Whitespace

\* A readable file with no text in it: extraction yields no text and so
\* chunking could yield no chunk.
NoText(f) ==
    \/ f.kind = "pdf" /\ \A p \in 1..Len(f.pages) : AllWhitespace(f.pages[p])
    \/ f.kind = "txt" /\ AllWhitespace(f.data)

\* C6: when extraction yields no text, process_document raises an error
\* whose message holds the file name, the upload ends with an error, no
\* chunk of the document is in the vector index and no record of it in the
\* document store.
C6_NoTextAborts ==
    \A r \in 1..Len(requests) :
        (requests[r].result.called /\ NoText(requests[r].file)) =>
            /\ ~requests[r].result.ok
            /\ Contains(requests[r].result.message, requests[r].file.filename)
            /\ requests[r].pc = "done"
            /\ requests[r].response.status = 500
            /\ Contains(requests[r].response.detail, requests[r].file.filename)
            /\ \A e \in collection : e.doc_id # r
            /\ \A d \in documents_collection : d.doc_id # r

\* A scanned PDF was refused while another upload was indexed and stored.
C6_Witness ==
    \E r, q \in 1..Len(requests) :
        /\ requests[r].result.called
        /\ NoText(requests[r].file)
        /\ Len(requests[r].file.pages) > 0
        /\ requests[r].response.status = 500
        /\ requests[q].response.status = 200
        /\ \E e \in collection : e.doc_id = q

(***************************************************************************)
(* POST /api/ask (main.py) beside the uploads.  ask_question awaits one    *)
(* find_one per requested document and then runs search_similar and        *)
(* generate_answer without suspending.                                     *)
(***************************************************************************)
top_k == 10                 \* search_similar(..., top_k=10)
MaxDistance == 2000         \* cosine distance, in thousandths, is at most 2

\* Stands for the cosine distance between the embeddings of the query and of
\* a stored text, in thousandths: a function of the two texts alone.
distance(query, document) ==
    Min(MaxDistance, 400 * Abs(Len(query) - Len(document)))

\* max(0.0, min(1.0, 1.0 - distance / 2.0)), in thousandths
confidence_of(d) == Max(0, Min(Thousand, Thousand - d \div 2))

\* collection.query: the n nearest of the entries, nearest first.
RECURSIVE nearest(_, _, _)
nearest(entries, query, n) ==
    IF n = 0 \/ entries = {} THEN <<>>
    ELSE LET first == CHOOSE e \in entries : \A f \in entries :
                 \/ distance(query, e.document) < distance(query, f.document)
                 \/ /\ distance(query, e.document) = distance(query, f.document)
                    /\ \/ e.doc_id < f.doc_id
                       \/ e.doc_id = f.doc_id /\ e.chunk_id <= f.chunk_id
         IN  <<first>> \o nearest(entries \ {first}, query, n - 1)

\* The chunk search_similar builds from a result of the query.
FormatResult(e, query) ==
    [text |-> e.document,
     doc_id |-> e.doc_id,
     chunk_id |-> e.chunk_id,
     page_number |-> e.page_number,
     confidence |-> confidence_of(distance(query, e.document)),
     raw_distance |-> distance(query, e.document)]

\* chunks.sort(key=lambda x: -x['confidence']), stable
RECURSIVE InsertByConfidence(_, _)
InsertByConfidence(s, c) ==
    IF s = <<>> THEN <<c>>
    ELSE IF c.confidence > Head(s).confidence THEN <<c>> \o s
    ELSE <<Head(s)>> \o InsertByConfidence(Tail(s), c)

RECURSIVE SortByConfidence(_, _)
SortByConfidence(cs, k) ==
    IF k = 0 THEN <<>>
    ELSE InsertByConfidence(SortByConfidence(cs, k - 1), cs[k])

InSeq(x, s) == \E i \in 1..Len(s) : s[i] = x

\* A search that goes on over the index after the index has failed.
search_similar_unguarded(index, query, doc_ids, index_ok) ==
    LET matching == IF doc_ids # <<>>
                    THEN {e \in index : InSeq(e.doc_id, doc_ids)}
                    ELSE index
        n_results == Min(top_k, Max(1, Cardinality(matching)))
        results == nearest(matching, query, n_results)
        formatted == [i \in 1..Len(results) |-> FormatResult(results[i], query)]
    IN  SortByConfidence(formatted, Len(formatted))

\* A search without the where filter.
search_similar_unfiltered(index, query, doc_ids, index_ok) ==
    LET n_results == Min(top_k, Max(1, Cardinality(index)))
        results == nearest(index, query, n_results)
        formatted == [i \in 1..Len(results) |-> FormatResult(results[i], query)]
    IN  IF ~index_ok THEN <<>>
        ELSE SortByConfidence(formatted, Len(formatted))

\* EmbeddingService.search_similar once the query is encoded.  index_ok is
\* whether the index answers collection.query; an exception there is caught
\* and [] returned.
search_similar(index, query, doc_ids, index_ok) ==
    LET matching == IF doc_ids # <<>>
                    THEN {e \in index : InSeq(e.doc_id, doc_ids)}
                    ELSE index
        n_results == Min(top_k, Max(1, Cardinality(matching)))
        results == nearest(matching, query, n_results)
        formatted == [i \in 1..Len(results) |-> FormatResult(results[i], query)]
    IN  IF ~index_ok THEN <<>>
        ELSE SortByConfidence(formatted, Len(formatted))

Http404(detail) == [status |-> 404, detail |-> detail]

\* What the generation call does during one generate_answer: it returns a
\* text at the first attempt, or raises at all three.
GenerationOutcomes ==
    {[calls |-> 1, ok |-> TRUE, text |-> <<"a", "n", "s", "w", "e", "r">>],
     [calls |-> max_retries, ok |-> FALSE, error |-> "quota exceeded"]}

\* generate_answer as a whole, for one outcome of the generation call.
generate_answer(q, cs, gen) ==
    IF build_context_raises(cs) THEN error_result("'text'")
    ELSE IF gen.ok
    THEN answer_result(q, cs, gen.text, is_general_knowledge_question(q, cs))
    ELSE error_result(gen.error)

\* Lines 204-221 for request r: search, and the answer if anything was
\* found.  fault is what breaks during the search, if anything.
AskAnswer(reqs, r, fault, gen) ==
    LET req == reqs[r]
        relevant_chunks == search_similar(collection, req.question,
                                          req.doc_ids, fault # "index")
        searched == [reqs EXCEPT
                        ![r].pc = "done", ![r].searched = TRUE,
                        ![r].fault = fault,
                        ![r].indexed = Cardinality(collection),
                        ![r].available = Cardinality(
                            {e \in collection : InSeq(e.doc_id, req.doc_ids)})]
    IN  IF fault = "encoder"
        THEN [searched EXCEPT ![r].response =
                 Http500("Error generating answer: ", <<"encoder failed">>)]
        ELSE IF relevant_chunks = <<>>
        THEN [searched EXCEPT ![r].response =
                 Http404(<<"No relevant information found">>)]
        ELSE [searched EXCEPT
                 ![r].retrieved = relevant_chunks,
                 ![r].generations = gen.calls,
                 ![r].response = [status |-> 200] @@
                     generate_answer(req.question, relevant_chunks, gen)]

AskQuestions == {<<"W", "h", "y", " ", "a">>}

SearchFaults == {"none", "index", "encoder"}

\* A client sends POST /api/ask as an authenticated user.  Beside the
\* handler's own state the request keeps what the search met: the fault, the
\* size of the index and the number of entries of the requested documents.
ReceiveAsk(u, q, ids) ==
    /\ Len(requests) < MaxRequests
    /\ requests' = Append(requests,
           [kind |-> "ask", user |-> u, question |-> q, doc_ids |-> ids,
            pc |-> "received", checked |-> 0, searched |-> FALSE,
            fault |-> "none", indexed |-> 0, available |-> 0,
            retrieved |-> <<>>, generations |-> 0,
            response |-> NoResponse])
    /\ UNCHANGED <<collection, documents_collection>>

\* The handler starts with doc_ids to validate and awaits the first
\* find_one.
AskStart(r) ==
    /\ requests[r].kind = "ask" /\ requests[r].pc = "received"
    /\ requests[r].doc_ids # <<>>
    /\ requests' = [requests EXCEPT ![r].pc = "find"]
    /\ UNCHANGED <<collection, documents_collection>>

\* The handler starts with no doc_ids and runs through to its end.
AskStartSearch(r, fault, gen) ==
    /\ requests[r].kind = "ask" /\ requests[r].pc = "received"
    /\ requests[r].doc_ids = <<>>
    /\ requests' = AskAnswer(requests, r, fault, gen)
    /\ UNCHANGED <<collection, documents_collection>>

\* Whether the find_one that request r awaits finds the document.
Found(r) ==
    \E d \in documents_collection :
        /\ d.doc_id = requests[r].doc_ids[requests[r].checked + 1]
        /\ d.user_id = requests[r].user

\* A find_one completes that is not the last, or that finds no document of
\* the user: the next find_one, or 404.
AskFound(r) ==
    LET req == requests[r]
    IN  /\ req.kind = "ask" /\ req.pc = "find"
        /\ ~Found(r) \/ req.checked + 1 < Len(req.doc_ids)
        /\ requests' =
               IF ~Found(r)
               THEN Finish(r, Http404(<<"Document ",
                        ToString(req.doc_ids[req.checked + 1]),
                        " not found">>))
               ELSE [requests EXCEPT ![r].checked = req.checked + 1]
        /\ UNCHANGED <<collection, documents_collection>>

\* The last find_one finds the document: the search and the answer follow
\* without suspension.
AskFoundSearch(r, fault, gen) ==
    LET req == requests[r]
    IN  /\ req.kind = "ask" /\ req.pc = "find"
        /\ Found(r) /\ req.checked + 1 = Len(req.doc_ids)
        /\ requests' = AskAnswer(
               [requests EXCEPT ![r].checked = req.checked + 1],
               r, fault, gen)
        /\ UNCHANGED <<collection, documents_collection>>

\* The user who uploads beside the questions, and the documents uploaded.
AskUploaders == {"u1"}

AskUploadInputs ==
    {[file |-> PdfFile(<<<<"a">>, <<"a", " ", "a">>>>), size_ok |-> TRUE],
     [file |-> TxtFile(<<"a", "\n", "\n", "a">>), size_ok |-> TRUE]}

\* A window of two words without overlap, so that a document of three words
\* is two chunks.
AskWindow == <<2, 0>>

\* A document that an earlier upload of user u1 has stored, under the id 0.
StoredFile == PdfFile(<<<<"a", " ", "a">>, <<"a">>>>)

StoredResult == process_document(StoredFile, 0)

\* doc_ids of a request: the stored document, the id the next upload gets,
\* both, or none.
AskDocIds == {<<>>, <<0>>, <<1>>, <<0, 1>>}

\* The service with an empty store, or with the one document stored.
InitAsk ==
    /\ chunk_size = AskWindow[1]
    /\ chunk_overlap = AskWindow[2]
    /\ requests = <<>>
    /\ \/ collection = {} /\ documents_collection = {}
       \/ /\ collection = embed_chunks({}, StoredResult.chunks, 0)
          /\ documents_collection = {DocumentDoc(StoredResult, "u1")}
    /\ IdleChunk
    /\ IdleIngest
    /\ IdleCite
    /\ IdleQa

NextAsk ==
    \/ /\ \/ \E u \in AskUploaders, in \in AskUploadInputs :
                ReceiveUpload(u, in)
          \/ \E r \in 1..Len(requests), embed_ok \in BOOLEAN :
                UploadProcess(r, embed_ok)
          \/ \E r \in 1..Len(requests) : UploadInsert(r)
          \/ \E r \in 1..Len(requests) : UploadInsertFails(r)
          \/ \E u \in Users, q \in AskQuestions, ids \in AskDocIds :
                ReceiveAsk(u, q, ids)
          \/ \E r \in 1..Len(requests) : AskStart(r)
          \/ \E r \in 1..Len(requests), fault \in SearchFaults,
                gen \in GenerationOutcomes : AskStartSearch(r, fault, gen)
          \/ \E r \in 1..Len(requests) : AskFound(r)
          \/ \E r \in 1..Len(requests), fault \in SearchFaults,
                gen \in GenerationOutcomes : AskFoundSearch(r, fault, gen)
       /\ UNCHANGED <<chunk_size, chunk_overlap, chunkVars, ingestVars,
                      citeVars, qaVars>>

SpecAsk == InitAsk /\ [][NextAsk]_vars

(***************************************************************************)
(* Properties of the ask handler, checked under SpecAsk.                   *)
(***************************************************************************)
Asks == {r \in 1..Len(requests) : requests[r].kind = "ask"}

Uploads == {r \in 1..Len(requests) : requests[r].kind = "upload"}

\* Nothing to retrieve for the request: no entry in the index at all when no
\* doc_ids were given, else no entry of the requested documents.
FoundNothing(r) ==
    IF requests[r].doc_ids = <<>> THEN requests[r].indexed = 0
    ELSE requests[r].available = 0

\* C18: when the index fails during the search or nothing is found,
\* search_similar returns an empty list instead of raising, and the ask
\* request ends with "No relevant information found" without the generation
\* call being invoked.
C18_NoRelevantInformation ==
    \A r \in Asks :
        (/\ requests[r].searched
         /\ requests[r].fault # "encoder"
         /\ requests[r].fault = "index" \/ FoundNothing(r)) =>
            /\ requests[r].retrieved = <<>>
            /\ requests[r].pc = "done"
            /\ requests[r].response.status = 404
            /\ requests[r].response.detail = <<"No relevant information found">>
            /\ requests[r].generations = 0

\* The index failed on a search for a stored document that has entries in
\* it.
C18_Witness ==
    \E r \in Asks :
        /\ requests[r].searched
        /\ requests[r].fault = "index"
        /\ requests[r].doc_ids # <<>>
        /\ requests[r].available > 1
        /\ requests[r].response.status = 404

\* The file of document d: the stored document, or the file of upload d.
DocFile(d) == IF d = 0 THEN StoredFile ELSE requests[d].file

\* The index entries of document d when its upload runs alone.
SoloEntries(d) == IndexEntries(process_document(DocFile(d), d).chunks, d)

\* The index of a service that holds the documents of ids and nothing else.
RECURSIVE SoloIndex(_, _)
SoloIndex(ids, k) ==
    IF k = 0 THEN {} ELSE SoloIndex(ids, k - 1) \cup SoloEntries(ids[k])

\* C19: under every interleaving of uploads and asks, an ask that names
\* documents retrieves exactly the chunks it would retrieve with only its
\* documents in the index, all of them chunks of its doc_ids, and an upload
\* stores exactly the chunks and the record it would store alone.
C19_NoInterference ==
    /\ \A r \in Asks :
           (/\ requests[r].searched
            /\ requests[r].fault = "none"
            /\ requests[r].doc_ids # <<>>) =>
               /\ requests[r].retrieved =
                      search_similar(
                          SoloIndex(requests[r].doc_ids,
                                    Len(requests[r].doc_ids)),
                          requests[r].question, requests[r].doc_ids, TRUE)
               /\ \A i \in 1..Len(requests[r].retrieved) :
                      InSeq(requests[r].retrieved[i].doc_id,
                            requests[r].doc_ids)
    /\ \A r \in Uploads :
           LET mine == {e \in collection : e.doc_id = r}
               records == {d \in documents_collection : d.doc_id = r}
           IN  IF requests[r].response.status = 200
               THEN /\ mine = SoloEntries(r)
                    /\ records = {DocumentDoc(process_document(
                                      requests[r].file, r), requests[r].user)}
               ELSE /\ mine = {} \/ mine = SoloEntries(r)
                    /\ records = {}

\* An ask for the stored document answered from its two chunks while an
\* upload waits in insert_one with its own chunks already in the index.
C19_Witness ==
    \E r \in Asks, q \in Uploads :
        /\ requests[q].pc = "insert"
        /\ requests[r].pc = "done"
        /\ requests[r].response.status = 200
        /\ requests[r].doc_ids = <<0>>
        /\ Len(requests[r].retrieved) = 2
        /\ requests[r].indexed > requests[r].available

(***************************************************************************)
(* DELETE /api/documents/{doc_id} (main.py) beside the uploads.  The       *)
(* handler awaits find_one, then deletes the chunks and the file without   *)
(* suspension, then awaits delete_one.                                     *)
(***************************************************************************)
\* EmbeddingService.delete_document: collection.get(where doc_id) and
\* collection.delete(ids); an exception of the index is printed and
\* swallowed, and the entries stay.
delete_document_entries(index, doc_id, index_ok) ==
    IF index_ok THEN {e \in index : e.doc_id # doc_id} ELSE index

\* A client sends DELETE /api/documents/{doc_id} as an authenticated user.
ReceiveDelete(u, d) ==
    /\ Len(requests) < MaxRequests
    /\ requests' = Append(requests,
           [kind |-> "delete", user |-> u, doc_id |-> d, pc |-> "received",
            response |-> NoResponse])
    /\ UNCHANGED <<collection, documents_collection>>

\* What can break between the two awaits: nothing, the index, or the
\* removal of the file.
DeleteFaults == {"none", "index", "file"}

\* find_one completes: 404 without a document of the user; else the chunks
\* and the file are deleted and the handler awaits delete_one.
DeleteFind(r, fault) ==
    LET req == requests[r]
        found == \E d \in documents_collection :
                     d.doc_id = req.doc_id /\ d.user_id = req.user
    IN  /\ req.kind = "delete" /\ req.pc = "received"
        /\ IF ~found
           THEN /\ requests' = Finish(r, Http404(<<"Document not found">>))
                /\ UNCHANGED collection
           ELSE /\ collection' = delete_document_entries(collection,
                                     req.doc_id, fault # "index")
                /\ requests' =
                       IF fault = "file"
                       THEN Finish(r, Http500("Error deleting document: ",
                                              <<"remove failed">>))
                       ELSE [requests EXCEPT ![r].pc = "remove"]
        /\ UNCHANGED documents_collection

\* delete_one completes and the handler returns the success message.
DeleteRemove(r) ==
    LET req == requests[r]
    IN  /\ req.kind = "delete" /\ req.pc = "remove"
        /\ documents_collection' =
               {d \in documents_collection :
                   ~(d.doc_id = req.doc_id /\ d.user_id = req.user)}
        /\ requests' = Finish(r, [status |-> 200,
                                  message |-> "Document deleted successfully"])
        /\ UNCHANGED collection

\* delete_one raises: the database is unreachable.
DeleteRemoveFails(r) ==
    LET req == requests[r]
    IN  /\ req.kind = "delete" /\ req.pc = "remove"
        /\ requests' = Finish(r, Http500("Error deleting document: ",
                                         <<"delete failed">>))
        /\ UNCHANGED <<collection, documents_collection>>

\* The ids deleted: the stored document and the id the first upload gets.
DeleteDocIds == {0, 1}

NextStore ==
    \/ /\ \/ \E u \in AskUploaders, in \in AskUploadInputs :
                ReceiveUpload(u, in)
          \/ \E r \in 1..Len(requests), embed_ok \in BOOLEAN :
                UploadProcess(r, embed_ok)
          \/ \E r \in 1..Len(requests) : UploadInsert(r)
          \/ \E r \in 1..Len(requests) : UploadInsertFails(r)
          \/ \E u \in Users, d \in DeleteDocIds : ReceiveDelete(u, d)
          \/ \E r \in 1..Len(requests), fault \in DeleteFaults :
                DeleteFind(r, fault)
          \/ \E r \in 1..Len(requests) : DeleteRemove(r)
          \/ \E r \in 1..Len(requests) : DeleteRemoveFails(r)
       /\ UNCHANGED <<chunk_size, chunk_overlap, chunkVars, ingestVars,
                      citeVars, qaVars>>

\* Uploads and deletes over an empty store or the one document stored.
SpecStore == InitAsk /\ [][NextStore]_vars

(***************************************************************************)
(* Properties of the store, checked under SpecStore and SpecAsk.           *)
(***************************************************************************)
\* The document a request works on: an upload on the document it creates,
\* a delete on the one it names.
DocumentOf(r) ==
    IF requests[r].kind = "upload" THEN r
    ELSE IF requests[r].kind = "delete" THEN requests[r].doc_id
    ELSE -1

Recorded(d) == \E doc \in documents_collection : doc.doc_id = d

Indexed(d) == \E e \in collection : e.doc_id = d

\* C29: while no upload or delete of a document is in progress, its record
\* is in the document store exactly if its chunks are in the index; after a
\* successful delete no chunk of the document is indexed, and after a
\* failed upload no chunk of its document is indexed.
C29_RecordIffChunks ==
    /\ \A d \in 0..MaxRequests :
           (\A r \in 1..Len(requests) :
                DocumentOf(r) = d => requests[r].pc = "done")
               => (Recorded(d) <=> Indexed(d))
    /\ \A r \in 1..Len(requests) :
           /\ (requests[r].kind = "delete" /\ requests[r].pc = "done"
                   /\ requests[r].response.status = 200)
                  => ~Indexed(requests[r].doc_id)
           /\ (requests[r].kind = "upload" /\ requests[r].pc = "done"
                   /\ requests[r].response.status # 200)
                  => ~Indexed(r)

\* The user a document belongs to: the uploader of the request that made
\* it, u1 for the stored document.
OwnerOf(d) ==
    IF d \in 1..Len(requests) /\ requests[d].kind = "upload"
    THEN requests[d].user
    ELSE "u1"

\* C30: what an ask retrieves, and what its answer cites, are chunks of
\* documents of the asking user, whatever its doc_ids.
C30_OwnChunksOnly ==
    \A r \in 1..Len(requests) :
        (requests[r].kind = "ask" /\ requests[r].pc = "done") =>
            /\ \A k \in 1..Len(requests[r].retrieved) :
                   OwnerOf(requests[r].retrieved[k].doc_id) = requests[r].user
            /\ requests[r].response.status = 200 =>
                   \A k \in 1..Len(requests[r].response.citations) :
                       OwnerOf(requests[r].response.citations[k].doc_id)
                           = requests[r].user

====
